---- MODULE Spec2Model ----
(***************************************************************************)
(* A model of the HubSpot maintenance scripts of chrt-n8n-workflows:       *)
(*   scripts/hubspot/dedup.py   find, merge and delete duplicate contacts  *)
(*   scripts/hubspot/enrich.py  enrich contacts, industry-enum mapping     *)
(*                                                                         *)
(* Text is modelled as a sequence of one-character strings, so that the    *)
(* normalisers (lower, strip, regular-expression substitution, split) are  *)
(* computed character by character as the Python code computes them.      *)
(***************************************************************************)
EXTENDS Integers, Sequences, FiniteSets, TLC

(***************************************************************************)
(* Text helpers (Python str semantics on sequences of characters)          *)
(***************************************************************************)

UpperChars ==
    <<"A","B","C","D","E","F","G","H","I","J","K","L","M",
      "N","O","P","Q","R","S","T","U","V","W","X","Y","Z">>

LowerChars ==
    <<"a","b","c","d","e","f","g","h","i","j","k","l","m",
      "n","o","p","q","r","s","t","u","v","w","x","y","z">>

DigitChars == {"0","1","2","3","4","5","6","7","8","9"}

\* The two trademark glyphs that normalize_name deletes, as opaque characters.
GlyphChars == {"(R)", "(TM)"}

\* str.isspace
IsSpace(c) == c \in {" ", "\t", "\n"}

\* the regular expression class \w
IsWordChar(c) ==
    \/ \E i \in DOMAIN LowerChars : c = LowerChars[i] \/ c = UpperChars[i]
    \/ c \in DigitChars
    \/ c = "_"

LowerChar(c) ==
    IF \E i \in DOMAIN UpperChars : UpperChars[i] = c
    THEN LowerChars[CHOOSE i \in DOMAIN UpperChars : UpperChars[i] = c]
    ELSE c

\* str.lower
Lower(s) == [i \in DOMAIN s |-> LowerChar(s[i])]

RECURSIVE LStrip(_)
LStrip(s) == IF s /= <<>> /\ IsSpace(Head(s)) THEN LStrip(Tail(s)) ELSE s

RECURSIVE RStrip(_)
RStrip(s) ==
    IF s /= <<>> /\ IsSpace(s[Len(s)]) THEN RStrip(SubSeq(s, 1, Len(s) - 1)) ELSE s

\* str.strip
Strip(s) == RStrip(LStrip(s))

\* str.rstrip(ch)
RECURSIVE RStripChar(_, _)
RStripChar(s, ch) ==
    IF s /= <<>> /\ s[Len(s)] = ch THEN RStripChar(SubSeq(s, 1, Len(s) - 1), ch) ELSE s

\* str.split(ch)[0]
SplitFirst(s, ch) ==
    IF \E i \in DOMAIN s : s[i] = ch
    THEN SubSeq(s, 1, (CHOOSE i \in DOMAIN s :
                          s[i] = ch /\ \A j \in 1..(i - 1) : s[j] /= ch) - 1)
    ELSE s

\* ' '.join(s.split()): whitespace runs become one space, none at the ends
RECURSIVE JoinSplit(_, _)
JoinSplit(s, pending) ==
    IF s = <<>> THEN <<>>
    ELSE IF IsSpace(Head(s)) THEN JoinSplit(Tail(s), TRUE)
    ELSE (IF pending THEN <<" ">> ELSE <<>>) \o <<Head(s)>> \o JoinSplit(Tail(s), FALSE)

CollapseWhitespace(s) == JoinSplit(LStrip(s), FALSE)

\* `x or ''` followed by .strip(): the emptiness test the scripts use throughout
Filled(v) == Strip(v) /= <<>>

(***************************************************************************)
(* dedup.py: normalize_name                                                *)
(***************************************************************************)

\* re.sub(r'\([^)]*\)', '', name), scanning from position i
RECURSIVE RemoveParens(_, _)
RemoveParens(s, i) ==
    IF i > Len(s) THEN <<>>
    ELSE IF s[i] = "(" /\ \E j \in (i + 1)..Len(s) : s[j] = ")"
    THEN LET j == CHOOSE j \in (i + 1)..Len(s) :
                      s[j] = ")" /\ \A k \in (i + 1)..(j - 1) : s[k] /= ")"
         IN  RemoveParens(s, j + 1)
    ELSE <<s[i]>> \o RemoveParens(s, i + 1)

\* re.sub(r'[(R)(TM)]', '', name)
RemoveGlyphs(s) == SelectSeq(s, LAMBDA c : c \notin GlyphChars)

\* the alternation of professional suffixes of dedup.py, in the order written
DedupSuffixTokens == <<
    <<"m","b","a">>, <<"p","h","d">>, <<"m","d">>, <<"r","n">>, <<"b","s","n">>,
    <<"c","p","t","c">>, <<"l","s","s","b","b">>, <<"m","h","a">>,
    <<"f","a","c","h","e">>, <<"p","m","p">>, <<"c","m","r","p">>, <<"c","t","b","s">>,
    <<"d","l","m">>, <<"a","s","c","p">>, <<"c","m">>, <<"m","s">>, <<"c","l","s">>,
    <<"m","t">>, <<"m","l","s">>, <<"s","b","b">>, <<"r","r","t">>,
    <<"l","s","s","g","b">>, <<"b","s">>, <<"j","r">>, <<"s","r">>, <<"i","i","i">>,
    <<"i","i">>, <<"d","o">>, <<"m","a">>, <<"m","p","a">>, <<"m","s","s","c","m">>,
    <<"c","s","c","p">>, <<"c","p","m">>, <<"c","s","p">>, <<"c","p","i","m">>,
    <<"l","c","s","w">>, <<"c","l","t","d">>, <<"c","i","i","s","c","m">>,
    <<"m","s","y","l">>, <<"g","m","s","-","t">>, <<"c","r","p">>,
    <<"c","f","t","c","o">> >>

\* the class [,\s]
IsSep(c) == c = "," \/ IsSpace(c)

\* first position at or after i that holds no separator (Len(s) + 1 when none)
RECURSIVE SkipSeps(_, _)
SkipSeps(s, i) == IF i <= Len(s) /\ IsSep(s[i]) THEN SkipSeps(s, i + 1) ELSE i

\* \b between positions p - 1 and p
WordBoundary(s, p) ==
    LET before == p - 1 >= 1 /\ p - 1 <= Len(s) /\ IsWordChar(s[p - 1])
        after  == p >= 1 /\ p <= Len(s) /\ IsWordChar(s[p])
    IN  before /= after

\* the token test without the word boundary behind the token
TokenAt_as_substring(s, j, tok) ==
    /\ j + Len(tok) - 1 <= Len(s)
    /\ SubSeq(s, j, j + Len(tok) - 1) = tok

\* token tok stands at position j of s and a word boundary follows it
TokenAt(s, j, tok) ==
    /\ j + Len(tok) - 1 <= Len(s)
    /\ SubSeq(s, j, j + Len(tok) - 1) = tok
    /\ WordBoundary(s, j + Len(tok))

\* re.sub(r'[,\s]+\b(tok1|tok2|...)\b[,\s]*', ' ', s), scanning from position i
RECURSIVE SubSuffixes(_, _, _)
SubSuffixes(s, i, tokens) ==
    IF i > Len(s) THEN <<>>
    ELSE IF IsSep(s[i])
    THEN LET j    == SkipSeps(s, i)
             hits == {t \in DOMAIN tokens : TokenAt(s, j, tokens[t])}
         IN  IF WordBoundary(s, j) /\ hits /= {}
             THEN LET t == CHOOSE t \in hits : \A u \in hits : t <= u
                  IN  <<" ">> \o SubSuffixes(s, SkipSeps(s, j + Len(tokens[t])), tokens)
             ELSE <<s[i]>> \o SubSuffixes(s, i + 1, tokens)
    ELSE <<s[i]>> \o SubSuffixes(s, i + 1, tokens)

normalize_name(name) ==
    LET n1 == Strip(Lower(name))
        n2 == RemoveParens(n1, 1)
        n3 == RemoveGlyphs(n2)
        n4 == SubSuffixes(n3, 1, DedupSuffixTokens)
    IN  Strip(CollapseWhitespace(n4))

(***************************************************************************)
(* dedup.py: normalize_url                                                 *)
(***************************************************************************)

normalize_url(url) ==
    LET u1 == RStripChar(Lower(Strip(url)), "/")
    IN  RStripChar(SplitFirst(u1, "?"), "/")

(***************************************************************************)
(* Contacts.  A contact is [id, properties]; properties is a Python dict,  *)
(* a function on the property names that are present.                      *)
(***************************************************************************)

\* dedup.py FIELDS, in the order written
FIELDS == <<
    "email", "jobtitle", "company", "industry", "city", "state", "country",
    "hs_linkedin_url", "phone", "website",
    "linkedin_headline", "school_name", "school_degree",
    "previous_company_name", "previous_company_position", "job_location",
    "linkedin_company_slug" >>

FieldSet == {FIELDS[i] : i \in DOMAIN FIELDS}

\* `p.get(f) or ''`
Get(p, f) == IF f \in DOMAIN p THEN p[f] ELSE <<>>

\* the empty dict
EmptyDict == <<>>

\* a variant that ranks by the number of filled fields first
score_filled_first(c) ==
    LET p            == c.properties
        filled       == Cardinality({f \in FieldSet : Filled(Get(p, f))})
        has_email    == IF Filled(Get(p, "email")) THEN 1 ELSE 0
        has_linkedin == IF Filled(Get(p, "hs_linkedin_url")) THEN 1 ELSE 0
    IN  <<filled, has_email, has_linkedin>>

score(c) ==
    LET p            == c.properties
        filled       == Cardinality({f \in FieldSet : Filled(Get(p, f))})
        has_email    == IF Filled(Get(p, "email")) THEN 1 ELSE 0
        has_linkedin == IF Filled(Get(p, "hs_linkedin_url")) THEN 1 ELSE 0
    IN  <<has_email, has_linkedin, filled>>

(***************************************************************************)
(* The inputs of a run: the contacts the CRM holds                         *)
(***************************************************************************)

MaxContacts == 4

\* Property dicts a CRM contact may carry.  Names: "Ann Lee" and "ann Lee, MBA"
\* (the same name key), "Bo Ray", and "Al" (a key of two characters).  URLs:
\* "x/a" and "X/a/?q" (the same URL key).  One e-mail value is blank (a single
\* space), one company value has spaces around it.
ContactPool == <<
    [firstname |-> <<"A","n","n">>, lastname |-> <<"L","e","e">>,
     email |-> <<"a","@","x">>, hs_linkedin_url |-> <<"x","/","a">>],
    [firstname |-> <<"a","n","n">>, lastname |-> <<"L","e","e",","," ","M","B","A">>,
     jobtitle |-> <<"c","t","o">>, company |-> <<" ","c"," ">>],
    [firstname |-> <<"B","o">>, lastname |-> <<"R","a","y">>,
     email |-> <<" ">>, hs_linkedin_url |-> <<"X","/","a","/","?","q">>,
     jobtitle |-> <<"v","p">>, company |-> <<"c","2">>, phone |-> <<"5">>],
    [firstname |-> <<"A","l">>, phone |-> <<"7">>],
    [firstname |-> <<"B","o">>, lastname |-> <<"R","a","y">>, phone |-> <<"9">>] >>

(***************************************************************************)
(* dedup.py: find_duplicates                                               *)
(***************************************************************************)

\* f'{fn} {ln}'.strip() of the stripped first and last name
FullName(p) ==
    Strip(Strip(Get(p, "firstname")) \o <<" ">> \o Strip(Get(p, "lastname")))

\* normalize_name and normalize_url of the texts ContactPool holds, computed
\* once and looked up below
PoolNameKeys ==
    [n \in {FullName(ContactPool[i]) : i \in DOMAIN ContactPool} |-> normalize_name(n)]

PoolUrlKeys ==
    [u \in {Get(ContactPool[i], "hs_linkedin_url") : i \in DOMAIN ContactPool}
        |-> normalize_url(u)]

\* the key of a text: table[text] when the table holds the text, or else the
\* key computed
Cached(text, table, key) == IF text \in DOMAIN table THEN table[text] ELSE key

\* norm = normalize_name(name)
NameKey(c) ==
    Cached(FullName(c.properties), PoolNameKeys, normalize_name(FullName(c.properties)))

\* url = normalize_url(p.get('hs_linkedin_url'))
UrlKey(c) ==
    Cached(Get(c.properties, "hs_linkedin_url"), PoolUrlKeys,
           normalize_url(Get(c.properties, "hs_linkedin_url")))

\* a variant that indexes every non-empty name key, however short
NameUsable_any_length(norm) == norm /= <<>>

\* `if norm and len(norm) > 2`
NameUsable(norm) == norm /= <<>> /\ Len(norm) > 2

\* `if url`
UrlUsable(url) == url /= <<>>

\* the elements of a finite set of numbers in ascending order
RECURSIVE Ascending(_)
Ascending(S) ==
    IF S = {} THEN <<>>
    ELSE LET m == CHOOSE m \in S : \A x \in S : m <= x
         IN  <<m>> \o Ascending(S \ {m})

\* the contacts at the positions given, in that order
Pick(contacts, positions) == [m \in DOMAIN positions |-> contacts[positions[m]]]

\* dict.setdefault(key, []).append(c) over the contacts whose key is usable
\* (keys[i] is <<>> for the others): the lists of the dict, in the order
\* their keys were first inserted
BuildIndex(contacts, keys) ==
    LET order == Ascending({i \in DOMAIN keys :
                              keys[i] /= <<>> /\ \A j \in 1..(i - 1) : keys[j] /= keys[i]})
    IN  [n \in DOMAIN order |->
            Pick(contacts, Ascending({i \in DOMAIN keys : keys[i] = keys[order[n]]}))]

by_name(contacts) ==
    BuildIndex(contacts,
               [i \in DOMAIN contacts |->
                   IF NameUsable(NameKey(contacts[i])) THEN NameKey(contacts[i]) ELSE <<>>])

by_url(contacts) ==
    BuildIndex(contacts,
               [i \in DOMAIN contacts |->
                   IF UrlUsable(UrlKey(contacts[i])) THEN UrlKey(contacts[i]) ELSE <<>>])

\* The union-find state: contact_to_group (a dict: its keys in insertion order
\* and its values) and group_counter.
EmptyGroups == [order |-> <<>>, group |-> EmptyDict, counter |-> 0]

get_group(st, cid) ==
    IF cid \in DOMAIN st.group THEN st
    ELSE [order   |-> Append(st.order, cid),
          group   |-> (cid :> st.counter) @@ st.group,
          counter |-> st.counter + 1]

RECURSIVE GetGroups(_, _)
GetGroups(st, cids) ==
    IF cids = <<>> THEN st ELSE GetGroups(get_group(st, Head(cids)), Tail(cids))

MinOf(S) == CHOOSE m \in S : \A x \in S : m <= x

\* the group ids of the contacts ids
GroupsOf(st, ids) == {st.group[c] : c \in ids}

\* every contact of the groups given, and every contact of ids, goes to target
Relabel(st, ids, groups, target) ==
    [st EXCEPT !.group =
        [c \in DOMAIN st.group |->
            IF st.group[c] \in groups \/ c \in ids THEN target ELSE st.group[c]]]

\* a variant that relabels only the ids passed in, not the other members of
\* their groups
merge_groups_ids_only(st, cids) ==
    IF Len(cids) <= 1 THEN st
    ELSE Relabel(GetGroups(st, cids), {cids[i] : i \in DOMAIN cids}, {},
                 MinOf(GroupsOf(GetGroups(st, cids), {cids[i] : i \in DOMAIN cids})))

merge_groups(st, cids) ==
    IF Len(cids) <= 1 THEN st
    ELSE Relabel(GetGroups(st, cids), {cids[i] : i \in DOMAIN cids},
                 GroupsOf(GetGroups(st, cids), {cids[i] : i \in DOMAIN cids}),
                 MinOf(GroupsOf(GetGroups(st, cids), {cids[i] : i \in DOMAIN cids})))

\* `for key, group in index.items(): if len(group) > 1: merge_groups(...)`
RECURSIVE MergeIndex(_, _)
MergeIndex(st, index) ==
    IF index = <<>> THEN st
    ELSE MergeIndex(IF Len(Head(index)) > 1
                    THEN merge_groups(st, [i \in DOMAIN Head(index) |-> Head(index)[i].id])
                    ELSE st,
                    Tail(index))

\* contacts_by_id[cid]: the last contact of the list that carries the id
ContactById(contacts, cid) ==
    contacts[CHOOSE i \in DOMAIN contacts :
                /\ contacts[i].id = cid
                /\ \A j \in DOMAIN contacts : contacts[j].id = cid => j <= i]

\* final_groups[gid]: the contacts of group gid, in the order contact_to_group
\* lists them
GroupMembers(contacts, st, gid) ==
    [gid   |-> gid,
     group |-> Pick([i \in DOMAIN st.order |-> ContactById(contacts, st.order[i])],
                    Ascending({i \in DOMAIN st.order : st.group[st.order[i]] = gid}))]

\* final_groups as the sequence of its items [gid, group], in insertion order
final_groups(contacts, st) ==
    LET order == Ascending({i \in DOMAIN st.order :
                              \A j \in 1..(i - 1) :
                                 st.group[st.order[j]] /= st.group[st.order[i]]})
    IN  [n \in DOMAIN order |-> GroupMembers(contacts, st, st.group[st.order[order[n]]])]

\* the returned dict {gid: group ... if len(group) > 1}, as the sequence of
\* its items [gid, group]
find_duplicates(contacts) ==
    SelectSeq(final_groups(contacts,
                  MergeIndex(MergeIndex(EmptyGroups, by_name(contacts)), by_url(contacts))),
              LAMBDA item : Len(item.group) > 1)

(***************************************************************************)
(* dedup.py: process_duplicates, the pure parts                            *)
(***************************************************************************)

\* sorted(dupes.items()): ascending group id
RECURSIVE SortedItems(_)
SortedItems(items) ==
    IF items = <<>> THEN <<>>
    ELSE LET i == CHOOSE i \in DOMAIN items :
                     \A j \in DOMAIN items : items[i].gid <= items[j].gid
         IN  <<items[i]>> \o
             SortedItems([k \in 1..(Len(items) - 1) |->
                             IF k < i THEN items[k] ELSE items[k + 1]])

\* a variant that sorts by the score alone
SortKey_score_only(c) == score(c)

\* a variant whose second key is the id itself
SortKey_larger_id(c) == score(c) \o <<c.id>>

\* the sort key (score(c), -int(c['id'])), flattened
SortKey(c) == score(c) \o <<0 - c.id>>

\* tuple comparison a < b
RECURSIVE TupleLess(_, _)
TupleLess(a, b) ==
    IF a = <<>> THEN b /= <<>>
    ELSE IF b = <<>> THEN FALSE
    ELSE IF Head(a) /= Head(b) THEN Head(a) < Head(b)
    ELSE TupleLess(Tail(a), Tail(b))

\* list.sort(key=..., reverse=True): descending by key, equal keys keep their
\* order (insertion sort from the left)
RECURSIVE InsertDesc(_, _)
InsertDesc(sorted, c) ==
    IF sorted = <<>> THEN <<c>>
    ELSE IF TupleLess(SortKey(Head(sorted)), SortKey(c))
    THEN <<c>> \o sorted
    ELSE <<Head(sorted)>> \o InsertDesc(Tail(sorted), c)

RECURSIVE SortGroupFrom(_, _)
SortGroupFrom(sorted, rest) ==
    IF rest = <<>> THEN sorted
    ELSE SortGroupFrom(InsertDesc(sorted, Head(rest)), Tail(rest))

SortGroup(group) == SortGroupFrom(<<>>, group)

\* a variant that does not look at the keeper's own value
MergeFrom_any_field(keeper_props, merge_updates, dp) ==
    LET take == {f \in FieldSet :
                    /\ Filled(Get(dp, f))
                    /\ f \notin DOMAIN merge_updates}
    IN  merge_updates @@ [f \in take |-> Strip(dp[f])]

\* a variant in which a later duplicate's value replaces an earlier one's
MergeFrom_last_wins(keeper_props, merge_updates, dp) ==
    LET take == {f \in FieldSet :
                    /\ ~Filled(Get(keeper_props, f))
                    /\ Filled(Get(dp, f))}
    IN  [f \in take |-> Strip(dp[f])] @@ merge_updates

\* one duplicate's pass over FIELDS in the merge loop
MergeFrom(keeper_props, merge_updates, dp) ==
    LET take == {f \in FieldSet :
                    /\ ~Filled(Get(keeper_props, f))
                    /\ Filled(Get(dp, f))
                    /\ f \notin DOMAIN merge_updates}
    IN  merge_updates @@ [f \in take |-> Strip(dp[f])]

RECURSIVE MergeLoop(_, _, _)
MergeLoop(keeper_props, merge_updates, to_delete) ==
    IF to_delete = <<>> THEN merge_updates
    ELSE MergeLoop(keeper_props,
                   MergeFrom(keeper_props, merge_updates, Head(to_delete).properties),
                   Tail(to_delete))

\* merge_updates of a sorted group
ComputeMerge(group) ==
    MergeLoop(group[1].properties, EmptyDict, Tail(group))

(***************************************************************************)
(* The requests to the CRM                                                 *)
(***************************************************************************)

\* the orders in which a set of ids can be listed
Orderings(S) ==
    {f \in [1..Cardinality(S) -> S] : \A i, j \in DOMAIN f : i /= j => f[i] /= f[j]}

\* the orders in which the CRM lists its contacts: by ascending or by
\* descending id
ListingOrders(S) ==
    {f \in Orderings(S) :
        \/ \A i, j \in DOMAIN f : i < j => f[i] < f[j]
        \/ \A i, j \in DOMAIN f : i < j => f[i] > f[j]}

\* how one request to the CRM ends: a response, an HTTP error response
\* (urllib.error.HTTPError), or a timeout / connection failure (URLError etc.)
Outcomes == {"ok", "http_error", "net_error"}

Request(method, id, body, outcome) ==
    [method |-> method, id |-> id, body |-> body, outcome |-> outcome]

\* time.sleep(0.15)
Sleep == Request("SLEEP", 0, EmptyDict, "ok")

\* hs_request: the value returned is truthy
Truthy(outcome) == outcome = "ok"

\* hs_request: `except urllib.error.HTTPError` is the only handler, so any other
\* failure of urlopen leaves hs_request as an exception
Raises(outcome) == outcome = "net_error"

\* the CRM after a PATCH it accepted: the properties sent replace the old ones
ApplyPatch(records, id, body) ==
    [i \in DOMAIN records |->
        IF records[i].id = id
        THEN [records[i] EXCEPT !.properties = body @@ records[i].properties]
        ELSE records[i]]

\* the CRM after a DELETE it accepted
ApplyDelete(records, id) == SelectSeq(records, LAMBDA c : c.id /= id)

\* a dict restricted to some of its keys
Restrict(f, S) == [x \in S |-> f[x]]

(***************************************************************************)
(* enrich.py: the industry enum, the classification cache, map_industry    *)
(*                                                                         *)
(* An industry value, like any word that no code looks into, is written    *)
(* as a text of one character: <<"BANKING">>, <<"Hospitals">>.             *)
(***************************************************************************)

\* HUBSPOT_INDUSTRY_ENUMS, in the order written
HUBSPOT_INDUSTRY_ENUMS == <<
    <<"ACCOUNTING">>, <<"AIRLINES_AVIATION">>, <<"ALTERNATIVE_DISPUTE_RESOLUTION">>,
    <<"ALTERNATIVE_MEDICINE">>, <<"ANIMATION">>, <<"APPAREL_FASHION">>,
    <<"ARCHITECTURE_PLANNING">>, <<"ARTS_AND_CRAFTS">>, <<"AUTOMOTIVE">>,
    <<"AVIATION_AEROSPACE">>, <<"BANKING">>, <<"BIOTECHNOLOGY">>,
    <<"BROADCAST_MEDIA">>, <<"BUILDING_MATERIALS">>,
    <<"BUSINESS_SUPPLIES_AND_EQUIPMENT">>, <<"CAPITAL_MARKETS">>, <<"CHEMICALS">>,
    <<"CIVIC_SOCIAL_ORGANIZATION">>, <<"CIVIL_ENGINEERING">>,
    <<"COMMERCIAL_REAL_ESTATE">>, <<"COMPUTER_NETWORK_SECURITY">>,
    <<"COMPUTER_GAMES">>, <<"COMPUTER_HARDWARE">>, <<"COMPUTER_NETWORKING">>,
    <<"COMPUTER_SOFTWARE">>, <<"INTERNET">>, <<"CONSTRUCTION">>,
    <<"CONSUMER_ELECTRONICS">>, <<"CONSUMER_GOODS">>, <<"CONSUMER_SERVICES">>,
    <<"COSMETICS">>, <<"DAIRY">>, <<"DEFENSE_SPACE">>, <<"DESIGN">>,
    <<"EDUCATION_MANAGEMENT">>, <<"E_LEARNING">>,
    <<"ELECTRICAL_ELECTRONIC_MANUFACTURING">>, <<"ENTERTAINMENT">>,
    <<"ENVIRONMENTAL_SERVICES">>, <<"EVENTS_SERVICES">>, <<"EXECUTIVE_OFFICE">>,
    <<"FACILITIES_SERVICES">>, <<"FARMING">>, <<"FINANCIAL_SERVICES">>,
    <<"FINE_ART">>, <<"FISHERY">>, <<"FOOD_BEVERAGES">>, <<"FOOD_PRODUCTION">>,
    <<"FUND_RAISING">>, <<"FURNITURE">>, <<"GAMBLING_CASINOS">>,
    <<"GLASS_CERAMICS_CONCRETE">>, <<"GOVERNMENT_ADMINISTRATION">>,
    <<"GOVERNMENT_RELATIONS">>, <<"GRAPHIC_DESIGN">>,
    <<"HEALTH_WELLNESS_AND_FITNESS">>, <<"HIGHER_EDUCATION">>,
    <<"HOSPITAL_HEALTH_CARE">>, <<"HOSPITALITY">>, <<"HUMAN_RESOURCES">>,
    <<"IMPORT_AND_EXPORT">>, <<"INDIVIDUAL_FAMILY_SERVICES">>,
    <<"INDUSTRIAL_AUTOMATION">>, <<"INFORMATION_SERVICES">>,
    <<"INFORMATION_TECHNOLOGY_AND_SERVICES">>, <<"INSURANCE">>,
    <<"INTERNATIONAL_AFFAIRS">>, <<"INTERNATIONAL_TRADE_AND_DEVELOPMENT">>,
    <<"INVESTMENT_BANKING">>, <<"INVESTMENT_MANAGEMENT">>, <<"JUDICIARY">>,
    <<"LAW_ENFORCEMENT">>, <<"LAW_PRACTICE">>, <<"LEGAL_SERVICES">>,
    <<"LEGISLATIVE_OFFICE">>, <<"LEISURE_TRAVEL_TOURISM">>, <<"LIBRARIES">>,
    <<"LOGISTICS_AND_SUPPLY_CHAIN">>, <<"LUXURY_GOODS_JEWELRY">>, <<"MACHINERY">>,
    <<"MANAGEMENT_CONSULTING">>, <<"MARITIME">>, <<"MARKET_RESEARCH">>,
    <<"MARKETING_AND_ADVERTISING">>, <<"MECHANICAL_OR_INDUSTRIAL_ENGINEERING">>,
    <<"MEDIA_PRODUCTION">>, <<"MEDICAL_DEVICES">>, <<"MEDICAL_PRACTICE">>,
    <<"MENTAL_HEALTH_CARE">>, <<"MILITARY">>, <<"MINING_METALS">>,
    <<"MOTION_PICTURES_AND_FILM">>, <<"MUSEUMS_AND_INSTITUTIONS">>, <<"MUSIC">>,
    <<"NANOTECHNOLOGY">>, <<"NEWSPAPERS">>, <<"NON_PROFIT_ORGANIZATION_MANAGEMENT">>,
    <<"OIL_ENERGY">>, <<"ONLINE_MEDIA">>, <<"OUTSOURCING_OFFSHORING">>,
    <<"PACKAGE_FREIGHT_DELIVERY">>, <<"PACKAGING_AND_CONTAINERS">>,
    <<"PAPER_FOREST_PRODUCTS">>, <<"PERFORMING_ARTS">>, <<"PHARMACEUTICALS">>,
    <<"PHILANTHROPY">>, <<"PHOTOGRAPHY">>, <<"PLASTICS">>,
    <<"POLITICAL_ORGANIZATION">>, <<"PRIMARY_SECONDARY_EDUCATION">>, <<"PRINTING">>,
    <<"PROFESSIONAL_TRAINING_COACHING">>, <<"PROGRAM_DEVELOPMENT">>,
    <<"PUBLIC_POLICY">>, <<"PUBLIC_RELATIONS_AND_COMMUNICATIONS">>,
    <<"PUBLIC_SAFETY">>, <<"PUBLISHING">>, <<"RAILROAD_MANUFACTURE">>, <<"RANCHING">>,
    <<"REAL_ESTATE">>, <<"RECREATIONAL_FACILITIES_AND_SERVICES">>,
    <<"RELIGIOUS_INSTITUTIONS">>, <<"RENEWABLES_ENVIRONMENT">>, <<"RESEARCH">>,
    <<"RESTAURANTS">>, <<"RETAIL">>, <<"SECURITY_AND_INVESTIGATIONS">>,
    <<"SEMICONDUCTORS">>, <<"SHIPBUILDING">>, <<"SPORTING_GOODS">>, <<"SPORTS">>,
    <<"STAFFING_AND_RECRUITING">>, <<"SUPERMARKETS">>, <<"TELECOMMUNICATIONS">>,
    <<"TEXTILES">>, <<"THINK_TANKS">>, <<"TOBACCO">>,
    <<"TRANSLATION_AND_LOCALIZATION">>, <<"TRANSPORTATION_TRUCKING_RAILROAD">>,
    <<"UTILITIES">>, <<"VENTURE_CAPITAL_PRIVATE_EQUITY">>, <<"VETERINARY">>,
    <<"WAREHOUSING">>, <<"WHOLESALE">>, <<"WINE_AND_SPIRITS">>, <<"WIRELESS">>,
    <<"WRITING_AND_EDITING">>, <<"MOBILE_GAMES">> >>

HUBSPOT_INDUSTRY_SET == {HUBSPOT_INDUSTRY_ENUMS[i] : i \in DOMAIN HUBSPOT_INDUSTRY_ENUMS}

\* INDUSTRY_CACHE_FILE when it does not exist
NoCacheFile == [exists |-> FALSE, data |-> EmptyDict]

_load_industry_cache(file) == IF file.exists THEN file.data ELSE EmptyDict

_save_industry_cache(cache) == [exists |-> TRUE, data |-> cache]

\* a variant that hands back a value it cannot map
map_industry_pass_through(raw_industry, cache) ==
    IF raw_industry \in DOMAIN cache THEN cache[raw_industry] ELSE raw_industry

\* map_industry; cache is its default argument _cache
map_industry(raw_industry, cache) ==
    IF raw_industry = <<>> THEN <<>>
    ELSE IF raw_industry \in HUBSPOT_INDUSTRY_SET THEN raw_industry
    ELSE IF raw_industry \in DOMAIN cache THEN cache[raw_industry]
    ELSE <<>>

\* the batches `uncached[i:i+50]` of resolve_industry_cache
BatchSize == 50

RECURSIVE Batches(_)
Batches(uncached) ==
    IF uncached = <<>> THEN <<>>
    ELSE IF Len(uncached) <= BatchSize THEN <<uncached>>
    ELSE <<SubSeq(uncached, 1, BatchSize)>>
            \o Batches(SubSeq(uncached, BatchSize + 1, Len(uncached)))

\* a JSON array or object as the value of a pair: Python reads it as a list
\* or a dict, which `v in HUBSPOT_INDUSTRY_SET` cannot hash (TypeError)
UnhashableValues == {<<"[\"BANKING\", \"FINANCIAL_SERVICES\"]">>}

\* What the classifier may put in a mapping: an enum value, a string that is
\* no enum value, or a value that is no string.
AiValues == {<<"BANKING">>, <<"Finance">>} \cup UnhashableValues

\* How one call of _ai_map_industries(batch) ends: no API key (no request is
\* sent), an exception of any kind around the request or the parsing of the
\* response, or a JSON object.  The object maps any of the values asked, and any
\* key of the cache, to any of AiValues.
AiAnswers(batch, cache) ==
    LET asked == {batch[i] : i \in DOMAIN batch}
        keys  == asked \cup DOMAIN cache
    IN  {[kind |-> "no_key", mapping |-> EmptyDict],
         [kind |-> "error", mapping |-> EmptyDict]}
        \cup {[kind |-> "json", mapping |-> m] :
                 m \in UNION {[K -> AiValues] : K \in SUBSET keys}}

\* one answer for each batch
AnswerLists(batches, cache) ==
    {a \in [DOMAIN batches -> UNION {AiAnswers(batches[i], cache) : i \in DOMAIN batches}] :
        \A i \in DOMAIN batches : a[i] \in AiAnswers(batches[i], cache)}

\* _ai_map_industries: the validated mapping returned for an answer
_ai_map_industries(batch, answer) ==
    IF batch = <<>> \/ answer.kind /= "json" THEN EmptyDict
    ELSE IF \E k \in DOMAIN answer.mapping : answer.mapping[k] \in UnhashableValues
    THEN EmptyDict
    ELSE LET mapping == answer.mapping
             valid   == {k \in DOMAIN mapping : mapping[k] \in HUBSPOT_INDUSTRY_SET}
         IN  [k \in valid |-> mapping[k]]

\* the request a call of _ai_map_industries sends, if it sends one
ClassifyRequests(batch, answer) ==
    IF batch = <<>> \/ answer.kind = "no_key" THEN <<>>
    ELSE <<Request("CLASSIFY", 0, batch,
                   IF answer.kind = "json" THEN "ok" ELSE "error")>>

\* resolve_industry_cache, the loop over the batches: the cache and the
\* requests sent after batches[i..], answers[i] being how the i-th call ends
RECURSIVE ResolveBatches(_, _, _, _)
ResolveBatches(cache, batches, answers, i) ==
    IF i > Len(batches) THEN [cache |-> cache, sent |-> <<>>]
    ELSE LET ai_results == _ai_map_industries(batches[i], answers[i])
             rest       == ResolveBatches(ai_results @@ cache, batches, answers, i + 1)
         IN  [cache |-> rest.cache,
              sent  |-> ClassifyRequests(batches[i], answers[i]) \o rest.sent]

\* a variant that takes no value for cached
UncachedLists_cache_ignored(raw_values, cache) ==
    LET S == {v \in raw_values : v /= <<>> /\ v \notin HUBSPOT_INDUSTRY_SET}
    IN  {f \in [1..Cardinality(S) -> S] : \A i, j \in DOMAIN f : i /= j => f[i] /= f[j]}

\* the orders in which `uncached` may list the values of `unique` that are not
\* cached (the iteration order of a Python set)
UncachedLists(raw_values, cache) ==
    LET S == {v \in raw_values :
                v /= <<>> /\ v \notin HUBSPOT_INDUSTRY_SET /\ v \notin DOMAIN cache}
    IN  {f \in [1..Cardinality(S) -> S] : \A i, j \in DOMAIN f : i /= j => f[i] /= f[j]}

\* resolve_industry_cache(raw_values) for one order of `uncached` and one
\* answer per batch: the file, the in-memory cache and the requests sent
resolve_industry_cache(raw_values, file, mem, uncached, answers) ==
    IF raw_values = {} THEN [file |-> file, mem |-> mem, sent |-> <<>>]
    ELSE LET cache == _load_industry_cache(file)
         IN  IF uncached = <<>>
             THEN [file |-> file, mem |-> cache @@ mem, sent |-> <<>>]
             ELSE LET r == ResolveBatches(cache, Batches(uncached), answers, 1)
                  IN  [file |-> _save_industry_cache(r.cache),
                       mem  |-> r.cache @@ mem,
                       sent |-> r.sent]

(***************************************************************************)
(* enrich.py: normalize_name, parse_location, the lookups                  *)
(***************************************************************************)

\* the alternation of professional suffixes of enrich.py, in the order written
EnrichSuffixTokens == <<
    <<"m","b","a">>, <<"p","h","d">>, <<"m","d">>, <<"r","n">>, <<"b","s","n">>,
    <<"c","p","t","c">>, <<"l","s","s","b","b">>, <<"m","h","a">>,
    <<"f","a","c","h","e">>, <<"p","m","p">>, <<"c","m","r","p">>,
    <<"c","t","b","s">>, <<"d","l","m">>, <<"a","s","c","p">>, <<"c","m">>,
    <<"m","s">>, <<"c","l","s">>, <<"m","t">>, <<"m","l","s">>, <<"s","b","b">>,
    <<"r","r","t">>, <<"l","s","s","g","b">>, <<"b","s">>, <<"j","r">>, <<"s","r">>,
    <<"i","i","i">>, <<"i","i">>, <<"d","o">>, <<"m","a">>, <<"m","p","a">>,
    <<"m","s","s","c","m">>, <<"c","s","c","p">>, <<"c","p","m">>, <<"c","s","p">>,
    <<"c","p","i","m">> >>

\* enrich.py normalize_name
enrich_normalize_name(name) ==
    LET n1 == Strip(Lower(name))
        n2 == RemoveParens(n1, 1)
        n3 == RemoveGlyphs(n2)
        n4 == SubSuffixes(n3, 1, EnrichSuffixTokens)
    IN  Strip(CollapseWhitespace(n4))

\* str.split(ch)
RECURSIVE Split(_, _)
Split(s, ch) ==
    IF \E i \in DOMAIN s : s[i] = ch
    THEN LET i == CHOOSE i \in DOMAIN s : s[i] = ch /\ \A j \in 1..(i - 1) : s[j] /= ch
         IN  <<SubSeq(s, 1, i - 1)>> \o Split(SubSeq(s, i + 1, Len(s)), ch)
    ELSE <<s>>

\* a or b, on texts
Or(a, b) == IF a /= <<>> THEN a ELSE b

\* parse_location once the string is split and its parts stripped:
\* <<city, state, country>>
LocationOf(location_str, parts) ==
    IF Len(parts) >= 3 THEN <<parts[1], parts[Len(parts) - 1], parts[Len(parts)]>>
    ELSE IF Len(parts) = 2 THEN <<parts[1], parts[2], <<>>>>
    ELSE <<location_str, <<>>, <<>>>>

\* parse_location: <<city, state, country>>
parse_location(location_str) ==
    IF location_str = <<>> THEN <<<<>>, <<>>, <<>>>>
    ELSE LocationOf(location_str,
                    [i \in DOMAIN Split(location_str, ",") |->
                        Strip(Split(location_str, ",")[i])])

\* .strip().lower().rstrip('/') of a LinkedIn URL
UrlLookupKey(url) == RStripChar(Lower(Strip(url)), "/")

\* what dict.get returns for a key that is absent: None
None == EmptyDict

\* dict.get(key) on a lookup
Lookup(d, key) == IF key \in DOMAIN d THEN d[key] ELSE None

\* a dict built by a loop over ps that stores ps[i] under keys[i] when the key
\* is non-empty: the first p of a key stays (`norm not in lookup`), or the
\* last p of a key stays (plain assignment)
IndexBy(ps, keys, first_wins) ==
    [k \in {keys[i] : i \in DOMAIN ps} \ {<<>>} |->
        ps[CHOOSE i \in DOMAIN ps :
              /\ keys[i] = k
              /\ \A j \in DOMAIN ps :
                    keys[j] = k => IF first_wins THEN i <= j ELSE i >= j]]

\* the first part of a contact's or scraper profile's name, as every loop of
\* main builds it: f"{fn} {ln}".strip() of the stripped parts
JoinName(fn, ln) == Strip(Strip(fn) \o <<" ">> \o Strip(ln))

\* full_name.split(' ', 1)
SplitOnce(s, ch) ==
    IF \E i \in DOMAIN s : s[i] = ch
    THEN LET i == CHOOSE i \in DOMAIN s : s[i] = ch /\ \A j \in 1..(i - 1) : s[j] /= ch
         IN  <<SubSeq(s, 1, i - 1), SubSeq(s, i + 1, Len(s))>>
    ELSE <<s>>

(***************************************************************************)
(* enrich.py: compute_updates and the payloads of new contacts             *)
(***************************************************************************)

\* updates[k] = v when cond holds
SetIf(cond, d, k, v) == IF cond THEN (k :> v) @@ Restrict(d, DOMAIN d \ {k}) ELSE d

\* updates[k] = v when cond holds and `k not in updates`
SetIfAbsent(cond, d, k, v) == IF cond /\ k \notin DOMAIN d THEN (k :> v) @@ d ELSE d

\* the fields compute_updates and the payloads copy from a scraper profile
\* when the contact has none: <<scraper column, contact property>>
ScraperExtraFields == <<
    <<"linkedinHeadline", "linkedin_headline">>,
    <<"linkedinSchoolName", "school_name">>,
    <<"linkedinSchoolDegree", "school_degree">>,
    <<"previousCompanyName", "previous_company_name">>,
    <<"linkedinPreviousJobTitle", "previous_company_position">>,
    <<"linkedinJobLocation", "job_location">>,
    <<"linkedinCompanySlug", "linkedin_company_slug">> >>

\* compute_updates, `if master_profile:`
UpdatesFromMaster(props, master_profile, cache) ==
    LET ind      == Strip(Or(Get(master_profile, "adjIndustry"), Get(master_profile, "industry")))
        location == Or(Get(master_profile, "bestLocation"), Get(master_profile, "location"))
        loc      == parse_location(location)
        u1 == SetIf(~Filled(Get(props, "jobtitle")) /\ Filled(Get(master_profile, "jobTitle")),
                    EmptyDict, "jobtitle", Strip(Get(master_profile, "jobTitle")))
        u2 == SetIf(~Filled(Get(props, "company")) /\ Filled(Get(master_profile, "company")),
                    u1, "company", Strip(Get(master_profile, "company")))
        u3 == SetIf(~Filled(Get(props, "industry")) /\ ind /= <<>>,
                    u2, "industry", map_industry(ind, cache))
        u4 == SetIf(~Filled(Get(props, "hs_linkedin_url"))
                        /\ Filled(Get(master_profile, "defaultProfileUrl")),
                    u3, "hs_linkedin_url", Strip(Get(master_profile, "defaultProfileUrl")))
        u5 == SetIf(location /= <<>> /\ ~Filled(Get(props, "state")) /\ loc[2] /= <<>>,
                    u4, "state", loc[2])
        u6 == SetIf(location /= <<>> /\ ~Filled(Get(props, "country")) /\ loc[3] /= <<>>,
                    u5, "country", loc[3])
        u7 == SetIf(location /= <<>> /\ ~Filled(Get(props, "city")) /\ loc[1] /= <<>>,
                    u6, "city", loc[1])
    IN  u7

\* compute_updates, the seven fields below "New enrichment fields", from the
\* i-th on
RECURSIVE UpdatesFromExtras(_, _, _, _)
UpdatesFromExtras(props, scraper_profile, updates, i) ==
    IF i > Len(ScraperExtraFields) THEN updates
    ELSE LET value == Strip(Get(scraper_profile, ScraperExtraFields[i][1]))
             prop  == ScraperExtraFields[i][2]
         IN  UpdatesFromExtras(props, scraper_profile,
                 SetIf(value /= <<>> /\ ~Filled(Get(props, prop)), updates, prop, value),
                 i + 1)

\* compute_updates, `if scraper_profile:`
UpdatesFromScraper(props, scraper_profile, updates, cache) ==
    LET email            == Strip(Get(scraper_profile, "professionalEmail"))
        scraper_title    == Strip(Get(scraper_profile, "linkedinJobTitle"))
        scraper_company  == Strip(Get(scraper_profile, "companyName"))
        scraper_industry == Strip(Get(scraper_profile, "companyIndustry"))
        scraper_url      == Strip(Get(scraper_profile, "linkedinProfileUrl"))
        scraper_loc      == Strip(Get(scraper_profile, "location"))
        loc              == parse_location(scraper_loc)
        u1 == SetIf(email /= <<>> /\ ~Filled(Get(props, "email")), updates, "email", email)
        u2 == SetIfAbsent(scraper_title /= <<>> /\ ~Filled(Get(props, "jobtitle")),
                    u1, "jobtitle", scraper_title)
        u3 == SetIfAbsent(scraper_company /= <<>> /\ ~Filled(Get(props, "company")),
                    u2, "company", scraper_company)
        u4 == SetIfAbsent(scraper_industry /= <<>> /\ ~Filled(Get(props, "industry")),
                    u3, "industry", map_industry(scraper_industry, cache))
        u5 == SetIfAbsent(scraper_url /= <<>> /\ ~Filled(Get(props, "hs_linkedin_url")),
                    u4, "hs_linkedin_url", scraper_url)
        u6 == SetIfAbsent(scraper_loc /= <<>> /\ ~Filled(Get(props, "state")) /\ loc[2] /= <<>>,
                    u5, "state", loc[2])
        u7 == SetIfAbsent(scraper_loc /= <<>> /\ ~Filled(Get(props, "country")) /\ loc[3] /= <<>>,
                    u6, "country", loc[3])
    IN  UpdatesFromExtras(props, scraper_profile, u7, 1)

compute_updates(hs_contact, master_profile, scraper_profile, cache) ==
    LET updates == IF master_profile /= None
                   THEN UpdatesFromMaster(hs_contact.properties, master_profile, cache)
                   ELSE EmptyDict
    IN  IF scraper_profile /= None
        THEN UpdatesFromScraper(hs_contact.properties, scraper_profile, updates, cache)
        ELSE updates

\* the e-mail and the seven enrichment fields a payload takes from a scraper
\* profile, from the i-th field on
RECURSIVE PayloadExtras(_, _, _)
PayloadExtras(scraper_profile, payload, i) ==
    IF i > Len(ScraperExtraFields) THEN payload
    ELSE LET value == Strip(Get(scraper_profile, ScraperExtraFields[i][1]))
         IN  PayloadExtras(scraper_profile,
                 SetIf(value /= <<>>, payload, ScraperExtraFields[i][2], value), i + 1)

\* {k: v for k, v in payload.items() if v}
DropEmpty(payload) == Restrict(payload, {k \in DOMAIN payload : payload[k] /= <<>>})

create_contact_payload(master_profile, scraper_profile, cache) ==
    LET full_name    == Get(master_profile, "fullName")
        given        == Get(master_profile, "firstName")
        parts        == SplitOnce(full_name, " ")
        split        == given = <<>> /\ full_name /= <<>>
        first_name   == IF split THEN parts[1] ELSE given
        last_name    == IF split THEN (IF Len(parts) > 1 THEN parts[2] ELSE <<>>)
                        ELSE Get(master_profile, "lastName")
        location     == Or(Get(master_profile, "bestLocation"), Get(master_profile, "location"))
        loc          == parse_location(location)
        raw_industry == Strip(Or(Get(master_profile, "adjIndustry"),
                                 Get(master_profile, "industry")))
        payload      == [firstname       |-> first_name,
                         lastname        |-> last_name,
                         jobtitle        |-> Get(master_profile, "jobTitle"),
                         company         |-> Get(master_profile, "company"),
                         industry        |-> map_industry(raw_industry, cache),
                         city            |-> Or(loc[1], location),
                         state           |-> loc[2],
                         country         |-> loc[3],
                         hs_lead_status  |-> <<"CONNECTED">>,
                         hs_linkedin_url |-> Get(master_profile, "defaultProfileUrl")]
        email        == Strip(Get(scraper_profile, "professionalEmail"))
        with_scraper == IF scraper_profile /= None
                        THEN PayloadExtras(scraper_profile,
                                 SetIf(email /= <<>>, payload, "email", email), 1)
                        ELSE payload
    IN  DropEmpty(with_scraper)

\* main, step C2: the payload of a contact created from a scraper profile
ScraperPayload(sp, cache) ==
    LET sp_fn    == Strip(Get(sp, "firstName"))
        sp_ln    == Strip(Get(sp, "lastName"))
        email    == Strip(Get(sp, "professionalEmail"))
        loc      == parse_location(Strip(Get(sp, "location")))
        job      == Strip(Get(sp, "linkedinJobTitle"))
        company  == Strip(Get(sp, "companyName"))
        industry == Strip(Get(sp, "companyIndustry"))
        p0 == [firstname       |-> sp_fn,
               lastname        |-> sp_ln,
               hs_lead_status  |-> <<"CONNECTED">>,
               hs_linkedin_url |-> Strip(Get(sp, "linkedinProfileUrl"))]
        p1 == SetIf(email /= <<>>, p0, "email", email)
        p2 == SetIf(job /= <<>>, p1, "jobtitle", job)
        p3 == SetIf(company /= <<>>, p2, "company", company)
        p4 == SetIf(industry /= <<>>, p3, "industry", map_industry(industry, cache))
        p5 == SetIf(loc[1] /= <<>>, p4, "city", loc[1])
        p6 == SetIf(loc[2] /= <<>>, p5, "state", loc[2])
        p7 == SetIf(loc[3] /= <<>>, p6, "country", loc[3])
    IN  DropEmpty(PayloadExtras(sp, p7, 1))

(***************************************************************************)
(* enrich.py: the inputs of a run                                          *)
(***************************************************************************)

MaxEnrichContacts == 2

MaxProfiles == 1

\* the requests of a run of enrich.py that may fail
MaxFailures == 2

\* Property dicts a CRM contact may carry in a run of enrich.py: a connected
\* "Ann Lee" whose industry is no enum value, a connected "Al" (a name key of
\* two characters) with no industry, and "Bo Ray", not connected, whose
\* industry is an enum value.
EnrichContactPool == <<
    [firstname |-> <<"A","n","n">>, lastname |-> <<"L","e","e">>,
     hs_lead_status |-> <<"CONNECTED">>, industry |-> <<"Hospitals">>],
    [firstname |-> <<"A","l">>, hs_lead_status |-> <<"CONNECTED">>],
    [firstname |-> <<"B","o">>, lastname |-> <<"R","a","y">>, email |-> <<"b","@","x">>,
     industry |-> <<"BANKING">>] >>

\* Master List profiles the audit script may return as synced
SyncedPool == <<
    [fullName |-> <<"A","n","n"," ","L","e","e",","," ","M","B","A">>, jobTitle |-> <<"c","t","o">>, industry |-> <<"Banks">>,
     defaultProfileUrl |-> <<"x","/","a">>, location |-> <<"R","o","m","e",","," ","I","T">>] >>

\* Master List profiles the audit script may return as unsynced
UnsyncedPool == <<
    [fullName |-> <<"A","l">>, company |-> <<"c">>, adjIndustry |-> <<"RETAIL">>],
    [fullName |-> <<"C","y"," ","O","r","r">>, industry |-> <<"Hospitals">>, bestLocation |-> <<"O","s","l","o">>] >>

\* rows the profile scraper CSV may hold
ScraperPool == <<
    [firstName |-> <<"A","n","n">>, lastName |-> <<"L","e","e">>, professionalEmail |-> <<"a","@","x">>,
     companyIndustry |-> <<"Hospitals">>, linkedinProfileUrl |-> <<"X","/","a","/">>],
    [firstName |-> <<"D","i">>, lastName |-> <<"F","o","x">>, linkedinJobTitle |-> <<"v","p">>,
     companyIndustry |-> <<"Banks">>] >>

\* what INDUSTRY_CACHE_FILE may hold when a run starts: nothing, or what an
\* earlier run saved
CacheFiles ==
    {NoCacheFile, _save_industry_cache(<<"Hospitals">> :> <<"HOSPITAL_HEALTH_CARE">>)}

\* the lists of at most n elements of the sequence pool
ListsUpTo(pool, n) == UNION {[1..k -> {pool[i] : i \in DOMAIN pool}] : k \in 0..n}

\* SAMPLE_CONTACT_IDS and TEST_CONTACT_IDS; the ids are opaque, small numbers
\* stand for them
SAMPLE_CONTACT_IDS == <<91, 92>>

TEST_CONTACT_IDS == <<93>>

(***************************************************************************)
(* enrich.py: main                                                         *)
(***************************************************************************)

\* the texts the pools hold as names, and their name keys, computed once and
\* looked up below
EnrichPoolKeys ==
    [n \in
    {JoinName(Get(EnrichContactPool[i], "firstname"), Get(EnrichContactPool[i], "lastname")) :
        i \in DOMAIN EnrichContactPool}
    \cup {Strip(Get(SyncedPool[i], "fullName")) : i \in DOMAIN SyncedPool}
    \cup {Strip(Get(UnsyncedPool[i], "fullName")) : i \in DOMAIN UnsyncedPool}
    \cup {JoinName(Get(ScraperPool[i], "firstName"), Get(ScraperPool[i], "lastName")) :
            i \in DOMAIN ScraperPool}
     |-> enrich_normalize_name(n)]

\* norm = normalize_name(name)
EnrichKey(name) == Cached(name, EnrichPoolKeys, enrich_normalize_name(name))

\* the name key of a CRM contact, of a Master List profile, of a scraper row
HsKey(c) == EnrichKey(JoinName(Get(c.properties, "firstname"), Get(c.properties, "lastname")))

MasterKey(p) == EnrichKey(Strip(Get(p, "fullName")))

ScraperKey(p) == EnrichKey(JoinName(Get(p, "firstName"), Get(p, "lastName")))

ScraperUrlKey(p) == UrlLookupKey(Get(p, "linkedinProfileUrl"))

build_master_lookup(synced, unsynced) ==
    IndexBy(synced \o unsynced,
            [i \in DOMAIN (synced \o unsynced) |-> MasterKey((synced \o unsynced)[i])], TRUE)

\* build_scraper_lookup: by_name and by_url
scraper_by_name(profiles) ==
    IndexBy(profiles, [i \in DOMAIN profiles |-> ScraperKey(profiles[i])], TRUE)

scraper_by_url(profiles) ==
    IndexBy(profiles, [i \in DOMAIN profiles |-> ScraperUrlKey(profiles[i])], FALSE)

\* main, step 3
hs_by_name(hs_contacts) ==
    IndexBy(hs_contacts, [i \in DOMAIN hs_contacts |-> HsKey(hs_contacts[i])], TRUE)

\* main: connected_hs
connected_hs(hs_contacts) ==
    SelectSeq(hs_contacts, LAMBDA c : Get(c.properties, "hs_lead_status") = <<"CONNECTED">>)

\* the CRM after a POST it accepted: a new contact under an id not in use
ApplyCreate(records, payload) ==
    Append(records,
           [id         |-> 1 + MinOf({m \in {records[i].id : i \in DOMAIN records} \cup {0} :
                                        \A i \in DOMAIN records : records[i].id <= m}),
            properties |-> payload])

VARIABLES
    script,             \* which script runs: "dedup" or "enrich"
    pc,                 \* the position of main()
    dry_run,            \* --dry-run
    audit_only,         \* dedup.py --audit-only
    crm,                \* the contacts the CRM holds, in the order it lists them
    log,                \* the requests sent and the delays between them, in order
    contacts,           \* main(): contacts (dedup.py), hs_contacts (enrich.py)
    dupes,              \* dedup.py main(): dupes, as the items of the dict
    gi,                 \* process_duplicates: position in sorted(dupes.items())
    di,                 \* process_duplicates: position in to_delete
    total_merged,       \* process_duplicates
    total_deleted,      \* process_duplicates
    cleanup,            \* enrich.py --cleanup
    fix_industry,       \* enrich.py --fix-industry
    synced_profiles,    \* enrich.py: the synced profiles of the Master List
    unsynced_profiles,  \* enrich.py: the unsynced profiles of the Master List
    scraper_profiles,   \* enrich.py: the rows of the profile scraper CSV
    cache_file,         \* enrich.py: INDUSTRY_CACHE_FILE on disk
    industry_cache,     \* enrich.py: _cache, the default argument of map_industry
    ei,                 \* enrich.py main(): position in the loop under way
    enriched_count,     \* enrich.py main()
    skipped_count,      \* enrich.py main()
    no_match_count,     \* enrich.py main()
    created_count,      \* enrich.py main()
    scraper_created,    \* enrich.py main()
    hs_name_set,        \* enrich.py main(), step C2
    hs_url_set,         \* enrich.py main(), step C2
    arg,                \* normalize_name: the argument of the last call
    ret,                \* normalize_name: what the last call returned
    progress,           \* batch-scraper.py: what PROGRESS_FILE holds
    url_rows,           \* batch-scraper.py: len(profiles), the rows of URLS_FILE
    args,               \* batch-scraper.py: the arguments of the last run of main
    batch_num,          \* batch-scraper.py main(): batch_num, 0 while none is chosen
    said                \* batch-scraper.py main(): the way the last run ended

dedupVars == <<dupes, gi, di, total_merged, total_deleted>>

enrichCounts ==
    <<enriched_count, skipped_count, no_match_count, created_count, scraper_created>>

enrichVars ==
    <<cleanup, fix_industry, synced_profiles, unsynced_profiles, scraper_profiles,
      cache_file, industry_cache, ei, enrichCounts, hs_name_set, hs_url_set>>

scraperVars == <<progress, url_rows, args, batch_num, said>>

vars ==
    <<script, pc, dry_run, audit_only, crm, log, contacts, dedupVars, enrichVars,
      arg, ret, scraperVars>>

\* load_progress when PROGRESS_FILE does not exist
NoProgress == [completed_batches |-> <<>>, last_batch |-> 0]

\* parse_args of batch-scraper.py with no argument given; 0 stands for a
\* --batch that is absent, and the sizes are scaled down
NoArgs ==
    [batch |-> 0, size |-> 2, dry_run |-> FALSE, status |-> FALSE, next |-> FALSE,
     launch |-> FALSE]

(***************************************************************************)
(* dedup.py: main and process_duplicates                                   *)
(***************************************************************************)

InitDedup ==
    /\ script = "dedup"
    /\ pc = "load"
    /\ dry_run \in BOOLEAN
    /\ audit_only \in BOOLEAN
    /\ \E order \in ListingOrders(1..MaxContacts) :
       \E props \in [1..MaxContacts -> {ContactPool[i] : i \in DOMAIN ContactPool}] :
          crm = [i \in DOMAIN order |-> [id |-> order[i], properties |-> props[i]]]
    /\ log = <<>>
    /\ contacts = <<>>
    /\ dupes = <<>>
    /\ gi = 1
    /\ di = 1
    /\ total_merged = 0
    /\ total_deleted = 0
    /\ arg = <<>>
    /\ ret = <<>>
    /\ cleanup = FALSE
    /\ fix_industry = FALSE
    /\ synced_profiles = <<>>
    /\ unsynced_profiles = <<>>
    /\ scraper_profiles = <<>>
    /\ cache_file = NoCacheFile
    /\ industry_cache = EmptyDict
    /\ ei = 1
    /\ enriched_count = 0
    /\ skipped_count = 0
    /\ no_match_count = 0
    /\ created_count = 0
    /\ scraper_created = 0
    /\ hs_name_set = {}
    /\ hs_url_set = {}
    /\ progress = NoProgress
    /\ url_rows = 0
    /\ args = NoArgs
    /\ batch_num = 0
    /\ said = ""

\* a variant that sends the request in a dry run too
SendsWrites_always(dry) == TRUE

\* a write site `if dry_run: print(...) else: hs_request(...)`
SendsWrites(dry) == ~dry

\* a variant that never sends the merge
NeedsMerge_never(merge_updates) == FALSE

\* a variant that sends the merge whatever it holds
NeedsMerge_always(merge_updates) == TRUE

\* `if merge_updates:`
NeedsMerge(merge_updates) == merge_updates /= EmptyDict

\* the group under work, sorted best contact first
CurrentGroup == SortGroup(SortedItems(dupes)[gi].group)

\* load_contacts: one page holds every contact (limit=100), in the order the
\* CRM lists them; a page that fails ends the loop with what was read so far
LoadContacts ==
    /\ script = "dedup"
    /\ pc = "load"
    /\ \E outcome \in Outcomes :
          /\ log' = Append(log, Request("GET", 0, EmptyDict, outcome))
          /\ contacts' = IF Truthy(outcome) THEN crm ELSE <<>>
          /\ pc' = IF Raises(outcome) THEN "crashed"
                   ELSE IF audit_only THEN "xref" ELSE "find"
    /\ UNCHANGED <<scraperVars, arg, ret, script, dry_run, audit_only, crm, dupes, gi, di,
                   total_merged, total_deleted>>
    /\ UNCHANGED enrichVars

\* main: dupes = find_duplicates(contacts)
FindDuplicates ==
    /\ script = "dedup"
    /\ pc = "find"
    /\ dupes' = find_duplicates(contacts)
    /\ pc' = "found"
    /\ UNCHANGED <<scraperVars, arg, ret, script, dry_run, audit_only, crm, log, contacts, gi, di,
                   total_merged, total_deleted>>
    /\ UNCHANGED enrichVars

\* main: `if dupes:` enter process_duplicates, else report that none was found
StartProcess ==
    /\ script = "dedup"
    /\ pc = "found"
    /\ pc' = IF dupes /= <<>> THEN "merge" ELSE "xref"
    /\ UNCHANGED <<scraperVars, arg, ret, script, dry_run, audit_only, crm, log, contacts, dupes, gi, di,
                   total_merged, total_deleted>>
    /\ UNCHANGED enrichVars

\* process_duplicates, one group: sort, pick the keeper, compute the merge and
\* PATCH the keeper
MergeKeeper ==
    /\ script = "dedup"
    /\ pc = "merge"
    /\ LET group         == CurrentGroup
           keeper        == group[1]
           merge_updates == ComputeMerge(group)
       IN  IF ~NeedsMerge(merge_updates)
           THEN /\ pc' = "delete"
                /\ UNCHANGED <<total_merged, crm, log>>
           ELSE /\ total_merged' = total_merged + 1
                /\ IF ~SendsWrites(dry_run)
                   THEN /\ pc' = "delete"
                        /\ UNCHANGED <<crm, log>>
                   ELSE \E outcome \in Outcomes :
                          /\ log' = log
                                \o <<Request("PATCH", keeper.id, merge_updates, outcome)>>
                                \o (IF Raises(outcome) THEN <<>> ELSE <<Sleep>>)
                          /\ crm' = IF Truthy(outcome)
                                    THEN ApplyPatch(crm, keeper.id, merge_updates)
                                    ELSE crm
                          /\ pc' = IF Raises(outcome) THEN "crashed" ELSE "delete"
    /\ di' = 1
    /\ UNCHANGED <<scraperVars, arg, ret, script, dry_run, audit_only, contacts, dupes, gi, total_deleted>>
    /\ UNCHANGED enrichVars

\* process_duplicates, one pass of `for dup in to_delete`
DeleteDuplicate ==
    /\ script = "dedup"
    /\ pc = "delete"
    /\ LET to_delete == Tail(CurrentGroup)
           dup       == to_delete[di]
           last      == di = Len(to_delete)
           after     == IF ~last THEN "delete"
                        ELSE IF gi < Len(dupes) THEN "merge"
                        ELSE IF dry_run THEN "xref" ELSE "reload"
       IN  /\ total_deleted' = total_deleted + 1
           /\ IF ~SendsWrites(dry_run)
              THEN /\ pc' = after
                   /\ UNCHANGED <<crm, log>>
              ELSE \E outcome \in Outcomes :
                     /\ log' = log
                           \o <<Request("DELETE", dup.id, EmptyDict, outcome)>>
                           \o (IF Raises(outcome) THEN <<>> ELSE <<Sleep>>)
                     /\ crm' = IF Truthy(outcome) THEN ApplyDelete(crm, dup.id) ELSE crm
                     /\ pc' = IF Raises(outcome) THEN "crashed" ELSE after
           /\ di' = IF last THEN 1 ELSE di + 1
           /\ gi' = IF last /\ gi < Len(dupes) THEN gi + 1 ELSE gi
    /\ UNCHANGED <<scraperVars, arg, ret, script, dry_run, audit_only, contacts, dupes, total_merged>>
    /\ UNCHANGED enrichVars

\* main: `if not dry_run:` reload the contacts after the dedup
ReloadContacts ==
    /\ script = "dedup"
    /\ pc = "reload"
    /\ \E outcome \in Outcomes :
          /\ log' = Append(log, Request("GET", 0, EmptyDict, outcome))
          /\ contacts' = IF Truthy(outcome) THEN crm ELSE <<>>
          /\ pc' = IF Raises(outcome) THEN "crashed" ELSE "xref"
    /\ UNCHANGED <<scraperVars, arg, ret, script, dry_run, audit_only, crm, dupes, gi, di,
                   total_merged, total_deleted>>
    /\ UNCHANGED enrichVars

\* main: cross_reference(contacts, master_profiles) prints its report and
\* main returns
CrossReference ==
    /\ script = "dedup"
    /\ pc = "xref"
    /\ pc' = "done"
    /\ UNCHANGED <<scraperVars, arg, ret, script, dry_run, audit_only, crm, log, contacts, dupes, gi, di,
                   total_merged, total_deleted>>
    /\ UNCHANGED enrichVars

NextDedup ==
    \/ LoadContacts
    \/ FindDuplicates
    \/ StartProcess
    \/ MergeKeeper
    \/ DeleteDuplicate
    \/ ReloadContacts
    \/ CrossReference

SpecDedup == InitDedup /\ [][NextDedup]_vars

\* the runs of main a behaviour holds, at most
MaxRuns == 2

\* the process is stopped between two requests of process_duplicates, and
\* main is run once more later; the log keeps the contacts the stopped run
\* had loaded
Interrupt ==
    /\ script = "dedup"
    /\ ~dry_run
    /\ pc \in {"merge", "delete"}
    /\ Cardinality({i \in DOMAIN log : log[i].method = "RUN"}) < MaxRuns - 1
    /\ pc' = "load"
    /\ log' = Append(log, Request("RUN", 0, contacts, "ok"))
    /\ contacts' = <<>>
    /\ dupes' = <<>>
    /\ gi' = 1
    /\ di' = 1
    /\ total_merged' = 0
    /\ total_deleted' = 0
    /\ UNCHANGED <<scraperVars, arg, ret, script, dry_run, audit_only, crm>>
    /\ UNCHANGED enrichVars

NextDedupRuns ==
    \/ NextDedup
    \/ Interrupt

SpecDedupRuns == InitDedup /\ [][NextDedupRuns]_vars

(***************************************************************************)
(* enrich.py: main as a state machine.  `contacts` holds hs_contacts.  The  *)
(* Master List and the scraper CSV are read at the start of main; what they *)
(* hold is fixed when the run starts.                                       *)
(***************************************************************************)

InitEnrich ==
    /\ script = "enrich"
    /\ pc = "load"
    /\ dry_run \in BOOLEAN
    /\ cleanup \in BOOLEAN
    /\ fix_industry \in BOOLEAN
    /\ audit_only = FALSE
    /\ \E props \in [1..MaxEnrichContacts -> {EnrichContactPool[i] : i \in DOMAIN EnrichContactPool}] :
          crm = [i \in 1..MaxEnrichContacts |-> [id |-> i, properties |-> props[i]]]
    /\ synced_profiles \in ListsUpTo(SyncedPool, MaxProfiles)
    /\ unsynced_profiles \in ListsUpTo(UnsyncedPool, MaxProfiles)
    /\ scraper_profiles \in ListsUpTo(ScraperPool, MaxProfiles)
    /\ cache_file \in CacheFiles
    /\ industry_cache = EmptyDict
    /\ log = <<>>
    /\ contacts = <<>>
    /\ dupes = <<>>
    /\ gi = 1
    /\ di = 1
    /\ ei = 1
    /\ total_merged = 0
    /\ total_deleted = 0
    /\ enriched_count = 0
    /\ skipped_count = 0
    /\ no_match_count = 0
    /\ created_count = 0
    /\ scraper_created = 0
    /\ hs_name_set = {}
    /\ hs_url_set = {}
    /\ arg = <<>>
    /\ ret = <<>>
    /\ progress = NoProgress
    /\ url_rows = 0
    /\ args = NoArgs
    /\ batch_num = 0
    /\ said = ""

\* the lookups main builds once
master_lookup == build_master_lookup(synced_profiles, unsynced_profiles)

\* main, lines 614-627: all_raw_industries
all_raw_industries ==
    ({Strip(Get(contacts[i].properties, "industry")) : i \in DOMAIN contacts}
     \cup {Strip(Get(p, "adjIndustry")) :
              p \in {(synced_profiles \o unsynced_profiles)[i] :
                        i \in DOMAIN (synced_profiles \o unsynced_profiles)}}
     \cup {Strip(Get(p, "industry")) :
              p \in {(synced_profiles \o unsynced_profiles)[i] :
                        i \in DOMAIN (synced_profiles \o unsynced_profiles)}}
     \cup {Strip(Get(scraper_profiles[i], "companyIndustry")) :
              i \in DOMAIN scraper_profiles}) \ {<<>>}

\* where main goes on from a step: the step itself when its loop has a pass
\* to run, or else the step after it; "fixed" is the end of step 0, with its
\* `if not args.dry_run and not args.cleanup: return`
RECURSIVE StageFrom(_)
StageFrom(step) ==
    IF step = "fix"
    THEN IF ~fix_industry THEN StageFrom("cleanup")
         ELSE IF contacts /= <<>> THEN "fix" ELSE StageFrom("fixed")
    ELSE IF step = "fixed"
    THEN IF ~dry_run /\ ~cleanup THEN "done" ELSE StageFrom("cleanup")
    ELSE IF step = "cleanup"
    THEN IF cleanup THEN "cleanup" ELSE StageFrom("enrich")
    ELSE IF step = "enrich"
    THEN IF connected_hs(contacts) /= <<>> THEN "enrich" ELSE StageFrom("create")
    ELSE IF step = "create"
    THEN IF unsynced_profiles /= <<>> THEN "create" ELSE StageFrom("scraper")
    ELSE IF step = "scraper" /\ scraper_profiles /= <<>> THEN "scraper"
    ELSE "report"

\* one pass of a loop of main is over: the next pass, or the step that
\* follows the loop, or the end of the run when a request raised; on the way
\* into step C2 main builds hs_name_set and hs_url_set (lines 858-872)
Proceed(raised, last, step) ==
    /\ pc' = IF raised THEN "crashed" ELSE IF last THEN StageFrom(step) ELSE pc
    /\ ei' = IF raised THEN ei ELSE IF last THEN 1 ELSE ei + 1
    /\ IF ~raised /\ last /\ StageFrom(step) = "scraper"
       THEN /\ hs_name_set' =
                 DOMAIN hs_by_name(contacts)
                 \cup ({MasterKey(unsynced_profiles[i]) : i \in DOMAIN unsynced_profiles}
                       \ {<<>>})
            /\ hs_url_set' =
                 ({UrlLookupKey(Get(contacts[i].properties, "hs_linkedin_url")) :
                      i \in DOMAIN contacts}
                  \cup {UrlLookupKey(Get(unsynced_profiles[i], "defaultProfileUrl")) :
                           i \in DOMAIN unsynced_profiles}) \ {<<>>}
       ELSE UNCHANGED <<hs_name_set, hs_url_set>>

\* the requests of one write and the delay after it
Sent(requests, raised) == requests \o (IF raised THEN <<>> ELSE <<Sleep>>)

\* how the next request of a run of enrich.py may end: MaxFailures of its
\* requests to the CRM, at most, do not end well
OutcomesAfter(requests) ==
    IF Cardinality({i \in DOMAIN requests :
                       /\ requests[i].method \in {"GET", "PATCH", "POST", "DELETE"}
                       /\ requests[i].outcome /= "ok"}) < MaxFailures
    THEN Outcomes ELSE {"ok"}

\* the CRM after the requests sent: each one the CRM accepted is applied
RECURSIVE ApplyAll(_, _)
ApplyAll(records, requests) ==
    IF requests = <<>> THEN records
    ELSE LET r == Head(requests)
         IN  ApplyAll(IF ~Truthy(r.outcome) THEN records
                      ELSE IF r.method = "PATCH" THEN ApplyPatch(records, r.id, r.body)
                      ELSE IF r.method = "DELETE" THEN ApplyDelete(records, r.id)
                      ELSE IF r.method = "POST" THEN ApplyCreate(records, r.body)
                      ELSE records,
                      Tail(requests))

\* the requests of one pass are sent; the last of them may raise
SendAll(requests, last, stage) ==
    /\ log' = log \o Sent(requests, Raises(requests[Len(requests)].outcome))
    /\ crm' = ApplyAll(crm, requests)
    /\ Proceed(Raises(requests[Len(requests)].outcome), last, stage)

\* hs_request(method, ...) followed by time.sleep(0.15)
WriteOnce(method, id, body, last, stage) ==
    \E outcome \in OutcomesAfter(log) :
       SendAll(<<Request(method, id, body, outcome)>>, last, stage)

\* a pass that sends nothing
NoWrite(last, stage) ==
    /\ UNCHANGED <<crm, log>>
    /\ Proceed(FALSE, last, stage)

\* main, step 1: load_hubspot_contacts; one page holds every contact; a page
\* that fails ends the loop with what was read so far
LoadData ==
    /\ script = "enrich"
    /\ pc = "load"
    /\ \E outcome \in OutcomesAfter(log) :
          /\ log' = Append(log, Request("GET", 0, EmptyDict, outcome))
          /\ contacts' = IF Truthy(outcome) THEN crm ELSE <<>>
          /\ pc' = IF Raises(outcome) THEN "crashed" ELSE "resolve"
    /\ UNCHANGED <<scraperVars, arg, ret, script, dry_run, audit_only, crm, dedupVars, cleanup, fix_industry,
                   synced_profiles, unsynced_profiles, scraper_profiles, cache_file,
                   industry_cache, ei, enrichCounts, hs_name_set, hs_url_set>>

\* what resolve_industry_cache leaves behind
Resolved(r) ==
    /\ cache_file' = r.file
    /\ industry_cache' = r.mem
    /\ log' = log \o r.sent

\* main, line 629: resolve_industry_cache(list(all_raw_industries))
ResolveIndustries ==
    /\ script = "enrich"
    /\ pc = "resolve"
    /\ \E uncached \in UncachedLists(all_raw_industries, _load_industry_cache(cache_file)) :
       \E answers \in AnswerLists(Batches(uncached), _load_industry_cache(cache_file)) :
          Resolved(resolve_industry_cache(all_raw_industries, cache_file, industry_cache,
                                          uncached, answers))
    /\ Proceed(FALSE, TRUE, "fix")
    /\ UNCHANGED <<scraperVars, arg, ret, script, dry_run, audit_only, crm, contacts, dedupVars, cleanup,
                   fix_industry, synced_profiles, unsynced_profiles, scraper_profiles,
                   enrichCounts>>

\* scraper_by_url.get(url) for the first of the URLs that is not empty and
\* is a key
RECURSIVE FirstUrlHit(_, _)
FirstUrlHit(linked, urls) ==
    IF urls = <<>> THEN None
    ELSE IF Head(urls) /= <<>> /\ Head(urls) \in DOMAIN linked THEN linked[Head(urls)]
    ELSE FirstUrlHit(linked, Tail(urls))

\* the scraper row main finds for a name key and the URLs given, in the order
\* given: by name first, then by each URL that is not empty
FindScraper(norm, urls) ==
    IF Lookup(scraper_by_name(scraper_profiles), norm) /= None
    THEN Lookup(scraper_by_name(scraper_profiles), norm)
    ELSE FirstUrlHit(scraper_by_url(scraper_profiles), urls)

\* master_lookup.get(norm) for a CRM contact
MasterFor(c) == Lookup(master_lookup, HsKey(c))

\* main, step 0: raw_ind of a contact whose industry is empty
FixSource(scraper, master) ==
    IF scraper /= None /\ Strip(Get(scraper, "companyIndustry")) /= <<>>
    THEN Strip(Get(scraper, "companyIndustry"))
    ELSE IF master /= None
    THEN Strip(Or(Get(master, "adjIndustry"), Get(master, "industry")))
    ELSE <<>>

\* main, step 0: the write site of one pass, for a contact whose industry is
\* current_industry and for which raw_ind was found
FixPass(id, current_industry, raw_ind, last) ==
    IF /\ SendsWrites(dry_run)
       /\ IF current_industry /= <<>>
          THEN map_industry(current_industry, industry_cache) /= current_industry
          ELSE raw_ind /= <<>>
    THEN WriteOnce("PATCH", id,
                   [industry |-> map_industry(IF current_industry /= <<>>
                                              THEN current_industry ELSE raw_ind,
                                              industry_cache)],
                   last, "fixed")
    ELSE NoWrite(last, "fixed")

\* main, step 0, one pass of `for c in hs_contacts`
FixIndustryStep ==
    /\ script = "enrich"
    /\ pc = "fix"
    /\ FixPass(contacts[ei].id, Strip(Get(contacts[ei].properties, "industry")),
               FixSource(FindScraper(HsKey(contacts[ei]),
                             <<UrlLookupKey(Get(contacts[ei].properties, "hs_linkedin_url"))>>),
                         MasterFor(contacts[ei])),
               ei = Len(contacts))
    /\ UNCHANGED <<scraperVars, arg, ret, script, dry_run, audit_only, contacts, dedupVars, cleanup, fix_industry,
                   synced_profiles, unsynced_profiles, scraper_profiles, cache_file,
                   industry_cache, enrichCounts>>

\* main, step A, one pass of `for cid in SAMPLE_CONTACT_IDS + TEST_CONTACT_IDS`
CleanupStep ==
    /\ script = "enrich"
    /\ pc = "cleanup"
    /\ IF SendsWrites(dry_run)
       THEN WriteOnce("DELETE", (SAMPLE_CONTACT_IDS \o TEST_CONTACT_IDS)[ei], EmptyDict,
                      ei = Len(SAMPLE_CONTACT_IDS \o TEST_CONTACT_IDS), "enrich")
       ELSE NoWrite(ei = Len(SAMPLE_CONTACT_IDS \o TEST_CONTACT_IDS), "enrich")
    /\ UNCHANGED <<scraperVars, arg, ret, script, dry_run, audit_only, contacts, dedupVars, cleanup, fix_industry,
                   synced_profiles, unsynced_profiles, scraper_profiles, cache_file,
                   industry_cache, enrichCounts>>

\* the PATCH requests of one pass of step B: the update and, when it is
\* refused and holds an e-mail, the update without the e-mail
EnrichRequests(id, updates, first, second) ==
    IF ~Truthy(first) /\ ~Raises(first) /\ "email" \in DOMAIN updates
       /\ DOMAIN updates /= {"email"}
    THEN <<Request("PATCH", id, updates, first),
           Request("PATCH", id, Restrict(updates, DOMAIN updates \ {"email"}), second)>>
    ELSE <<Request("PATCH", id, updates, first)>>

\* main, step B: the scraper row of a contact
ScraperFor(c, master) ==
    FindScraper(HsKey(c), <<UrlLookupKey(Get(c.properties, "hs_linkedin_url")),
                            IF master /= None
                            THEN UrlLookupKey(Get(master, "defaultProfileUrl"))
                            ELSE <<>> >>)

\* main, step B: `if not updates: ... else: ...`
EnrichMatched(id, updates, last) ==
    IF updates = EmptyDict
    THEN /\ skipped_count' = skipped_count + 1
         /\ UNCHANGED <<enriched_count, no_match_count>>
         /\ NoWrite(last, "create")
    ELSE /\ enriched_count' = enriched_count + 1
         /\ UNCHANGED <<skipped_count, no_match_count>>
         /\ IF SendsWrites(dry_run)
            THEN \E first \in OutcomesAfter(log) :
                 \E second \in OutcomesAfter(log \o <<Request("PATCH", id, updates, first)>>) :
                    SendAll(EnrichRequests(id, updates, first, second), last, "create")
            ELSE NoWrite(last, "create")

\* main, step B: `if not master and not scraper: ... continue`
EnrichPass(c, master, last) ==
    IF master = None /\ ScraperFor(c, master) = None
    THEN /\ no_match_count' = no_match_count + 1
         /\ UNCHANGED <<enriched_count, skipped_count>>
         /\ NoWrite(last, "create")
    ELSE EnrichMatched(c.id,
                       compute_updates(c, master, ScraperFor(c, master), industry_cache),
                       last)

\* main, step B, one pass of `for c in connected_hs`
EnrichStep ==
    /\ script = "enrich"
    /\ pc = "enrich"
    /\ EnrichPass(connected_hs(contacts)[ei], MasterFor(connected_hs(contacts)[ei]),
                  ei = Len(connected_hs(contacts)))
    /\ UNCHANGED <<scraperVars, arg, ret, script, dry_run, audit_only, contacts, dedupVars, cleanup, fix_industry,
                   synced_profiles, unsynced_profiles, scraper_profiles, cache_file,
                   industry_cache, created_count, scraper_created>>

\* main, step C: the payload of the contact created for a profile
UnsyncedPayload(profile) ==
    create_contact_payload(profile,
        FindScraper(MasterKey(profile), <<UrlLookupKey(Get(profile, "defaultProfileUrl"))>>),
        industry_cache)

\* main, step C, one pass of `for profile in unsynced_profiles`
CreateUnsyncedStep ==
    /\ script = "enrich"
    /\ pc = "create"
    /\ IF \/ MasterKey(unsynced_profiles[ei]) \in DOMAIN hs_by_name(contacts)
          \/ ~SendsWrites(dry_run)
       THEN /\ UNCHANGED created_count
            /\ NoWrite(ei = Len(unsynced_profiles), "scraper")
       ELSE \E outcome \in OutcomesAfter(log) :
              /\ created_count' = IF Truthy(outcome) THEN created_count + 1
                                  ELSE created_count
              /\ SendAll(<<Request("POST", 0, UnsyncedPayload(unsynced_profiles[ei]),
                                   outcome)>>,
                         ei = Len(unsynced_profiles), "scraper")
    /\ UNCHANGED <<scraperVars, arg, ret, script, dry_run, audit_only, contacts, dedupVars, cleanup, fix_industry,
                   synced_profiles, unsynced_profiles, scraper_profiles, cache_file,
                   industry_cache, enriched_count, skipped_count, no_match_count,
                   scraper_created>>

\* main, step C2: hs_name_set.add(sp_norm) and hs_url_set.add(sp_url)
MarkSeen(sp_norm, sp_url) ==
    /\ hs_name_set' = IF sp_norm = <<>> THEN hs_name_set ELSE hs_name_set \cup {sp_norm}
    /\ hs_url_set' = IF sp_url = <<>> THEN hs_url_set ELSE hs_url_set \cup {sp_url}

\* main, step C2: the end of one pass
ScraperNext(raised, last) ==
    /\ pc' = IF raised THEN "crashed" ELSE IF last THEN "report" ELSE pc
    /\ ei' = IF raised THEN ei ELSE IF last THEN 1 ELSE ei + 1

\* main, step C2: the write site of one pass
ScraperPass(sp_norm, sp_url, sp, last) ==
    IF sp_norm \in hs_name_set \/ (sp_url /= <<>> /\ sp_url \in hs_url_set)
    THEN /\ UNCHANGED <<crm, log, scraper_created, hs_name_set, hs_url_set>>
         /\ ScraperNext(FALSE, last)
    ELSE IF ~SendsWrites(dry_run)
    THEN /\ UNCHANGED <<crm, log, scraper_created>>
         /\ MarkSeen(sp_norm, sp_url)
         /\ ScraperNext(FALSE, last)
    ELSE \E outcome \in OutcomesAfter(log) :
           /\ log' = log \o Sent(<<Request("POST", 0, ScraperPayload(sp, industry_cache),
                                           outcome)>>, Raises(outcome))
           /\ crm' = IF Truthy(outcome)
                     THEN ApplyCreate(crm, ScraperPayload(sp, industry_cache)) ELSE crm
           /\ scraper_created' = IF Truthy(outcome) THEN scraper_created + 1
                                 ELSE scraper_created
           /\ IF Raises(outcome) THEN UNCHANGED <<hs_name_set, hs_url_set>>
              ELSE MarkSeen(sp_norm, sp_url)
           /\ ScraperNext(Raises(outcome), last)

\* main, step C2, one pass of `for sp in scraper_profiles`
CreateFromScraperStep ==
    /\ script = "enrich"
    /\ pc = "scraper"
    /\ ScraperPass(ScraperKey(scraper_profiles[ei]), ScraperUrlKey(scraper_profiles[ei]),
                   scraper_profiles[ei], ei = Len(scraper_profiles))
    /\ UNCHANGED <<scraperVars, arg, ret, script, dry_run, audit_only, contacts, dedupVars, cleanup, fix_industry,
                   synced_profiles, unsynced_profiles, scraper_profiles, cache_file,
                   industry_cache, enriched_count, skipped_count, no_match_count,
                   created_count>>

\* main, step D and the summary: the totals are printed and main returns
Report ==
    /\ script = "enrich"
    /\ pc = "report"
    /\ pc' = "done"
    /\ UNCHANGED <<scraperVars, arg, ret, script, dry_run, audit_only, crm, log, contacts, dedupVars, enrichVars>>

NextEnrich ==
    \/ LoadData
    \/ ResolveIndustries
    \/ FixIndustryStep
    \/ CleanupStep
    \/ EnrichStep
    \/ CreateUnsyncedStep
    \/ CreateFromScraperStep
    \/ Report

SpecEnrich == InitEnrich /\ [][NextEnrich]_vars

(***************************************************************************)
(* enrich.py run again and again: the cache file and the CRM stay, the     *)
(* process and with it the in-memory cache of map_industry are new         *)
(***************************************************************************)

\* the runs of enrich.py a behaviour holds, at most

\* `if __name__ == '__main__': main()`, once more, with the same flags and
\* the same input files, after a run that returned or raised; the log gets a
\* mark that holds what the cache file maps at that moment
RunAgain ==
    /\ script = "enrich"
    /\ pc \in {"done", "crashed"}
    /\ Cardinality({i \in DOMAIN log : log[i].method = "RUN"}) < MaxRuns - 1
    /\ pc' = "load"
    /\ log' = Append(log, Request("RUN", 0, _load_industry_cache(cache_file), "ok"))
    /\ contacts' = <<>>
    /\ industry_cache' = EmptyDict
    /\ ei' = 1
    /\ enriched_count' = 0
    /\ skipped_count' = 0
    /\ no_match_count' = 0
    /\ created_count' = 0
    /\ scraper_created' = 0
    /\ hs_name_set' = {}
    /\ hs_url_set' = {}
    /\ UNCHANGED <<scraperVars, arg, ret, script, dry_run, audit_only, crm, dedupVars, cleanup, fix_industry,
                   synced_profiles, unsynced_profiles, scraper_profiles, cache_file>>

NextEnrichRuns ==
    \/ NextEnrich
    \/ RunAgain

\* the runs that are repeated: a run with --cleanup is a dry run
InitEnrichRuns == InitEnrich /\ (dry_run \/ ~cleanup)

SpecEnrichRuns == InitEnrichRuns /\ [][NextEnrichRuns]_vars

(***************************************************************************)
(* A run of either script                                                  *)
(***************************************************************************)

Init == InitDedup \/ InitEnrich

Next == NextDedup \/ NextEnrich

Spec == Init /\ [][Next]_vars

(***************************************************************************)
(* normalize_name, called on a name and then on the key it returned        *)
(***************************************************************************)

MaxNameTokens == 4

\* the names handed to normalize_name: up to MaxNameTokens pieces in a row,
\* a word, suffixes behind a separator, a parenthetical aside, a glyph, blanks,
\* the letters of a suffix with no separator before them, a suffix that only
\* dedup.py lists
Names ==
    LET NameTokens == << <<"A","l">>, <<" ","M","B","A">>, <<","," ","P","h","D">>,
                         <<" ","j","r">>, <<" ","(","x",")">>, <<"(R)">>, <<" ">>,
                         <<"m","a">>, <<" ","C","R","P">> >>
        RECURSIVE Cat(_)
        Cat(ts) == IF ts = <<>> THEN <<>> ELSE Head(ts) \o Cat(Tail(ts))
    IN  {Cat(ts) : ts \in ListsUpTo(NameTokens, MaxNameTokens)}

InitNormalize ==
    /\ script \in {"dedup", "enrich"}
    /\ pc = "call"
    /\ arg \in Names
    /\ ret = <<>>
    /\ dry_run = FALSE
    /\ audit_only = FALSE
    /\ crm = <<>>
    /\ log = <<>>
    /\ contacts = <<>>
    /\ dupes = <<>>
    /\ gi = 1
    /\ di = 1
    /\ total_merged = 0
    /\ total_deleted = 0
    /\ cleanup = FALSE
    /\ fix_industry = FALSE
    /\ synced_profiles = <<>>
    /\ unsynced_profiles = <<>>
    /\ scraper_profiles = <<>>
    /\ cache_file = NoCacheFile
    /\ industry_cache = EmptyDict
    /\ ei = 1
    /\ enriched_count = 0
    /\ skipped_count = 0
    /\ no_match_count = 0
    /\ created_count = 0
    /\ scraper_created = 0
    /\ hs_name_set = {}
    /\ hs_url_set = {}
    /\ progress = NoProgress
    /\ url_rows = 0
    /\ args = NoArgs
    /\ batch_num = 0
    /\ said = ""

\* one call of the script's normalize_name: on the name first, then on what
\* the call before returned
NormalizeName ==
    /\ pc \in {"call", "returned"}
    /\ arg' = IF pc = "call" THEN arg ELSE ret
    /\ ret' = IF script = "dedup" THEN normalize_name(arg')
                                  ELSE enrich_normalize_name(arg')
    /\ pc' = IF pc = "call" THEN "returned" ELSE "called_again"
    /\ UNCHANGED <<scraperVars, script, dry_run, audit_only, crm, log, contacts, dedupVars, enrichVars>>

SpecNormalize == InitNormalize /\ [][NormalizeName]_vars

(***************************************************************************)
(* normalize_url, called on a URL and then on the key it returned          *)
(***************************************************************************)

MaxUrlTokens == 4

\* the URLs handed to normalize_url: up to MaxUrlTokens pieces in a row, a
\* scheme, a path segment in capitals, a slash, a query string, a blank
Urls ==
    LET UrlTokens == << <<"h","t","t","p",":","/","/">>,
                        <<"h","t","t","p","s",":","/","/">>,
                        <<"X">>, <<"/">>, <<"?","q">>, <<" ">> >>
        RECURSIVE Cat(_)
        Cat(ts) == IF ts = <<>> THEN <<>> ELSE Head(ts) \o Cat(Tail(ts))
    IN  {Cat(ts) : ts \in ListsUpTo(UrlTokens, MaxUrlTokens)}

InitNormalizeUrl ==
    /\ script = "dedup"
    /\ pc = "call"
    /\ arg \in Urls
    /\ ret = <<>>
    /\ dry_run = FALSE
    /\ audit_only = FALSE
    /\ crm = <<>>
    /\ log = <<>>
    /\ contacts = <<>>
    /\ dupes = <<>>
    /\ gi = 1
    /\ di = 1
    /\ total_merged = 0
    /\ total_deleted = 0
    /\ cleanup = FALSE
    /\ fix_industry = FALSE
    /\ synced_profiles = <<>>
    /\ unsynced_profiles = <<>>
    /\ scraper_profiles = <<>>
    /\ cache_file = NoCacheFile
    /\ industry_cache = EmptyDict
    /\ ei = 1
    /\ enriched_count = 0
    /\ skipped_count = 0
    /\ no_match_count = 0
    /\ created_count = 0
    /\ scraper_created = 0
    /\ hs_name_set = {}
    /\ hs_url_set = {}
    /\ progress = NoProgress
    /\ url_rows = 0
    /\ args = NoArgs
    /\ batch_num = 0
    /\ said = ""

\* one call of normalize_url: on the URL first, then on what the call before
\* returned
NormalizeUrl ==
    /\ pc \in {"call", "returned"}
    /\ arg' = IF pc = "call" THEN arg ELSE ret
    /\ ret' = normalize_url(arg')
    /\ pc' = IF pc = "call" THEN "returned" ELSE "called_again"
    /\ UNCHANGED <<scraperVars, script, dry_run, audit_only, crm, log, contacts, dedupVars, enrichVars>>

SpecNormalizeUrl == InitNormalizeUrl /\ [][NormalizeUrl]_vars

(***************************************************************************)
(* batch-scraper.py: main, run any number of times over one URLS_FILE and  *)
(* one PROGRESS_FILE.  A run is one step.                                  *)
(***************************************************************************)

MaxUrlRows == 3

\* --size, scaled down from DEFAULT_BATCH_SIZE
Sizes == {1, 2}

\* what parse_args may return
ArgSets ==
    [batch : -1..(MaxUrlRows + 1), size : Sizes, dry_run : BOOLEAN, status : BOOLEAN,
     next : BOOLEAN, launch : BOOLEAN]

\* what launch_phantombuster may do: return a container id, return a falsy
\* value (None after an HTTPError, or an empty containerId), or raise
LaunchResults == {"container", "falsy", "raises"}

\* main: total_batches
total_batches(rows, size) == (rows + size - 1) \div size

\* main: the batch number looked at, 0 when the run names none
ChosenBatch(a, p) ==
    IF a.next THEN p.last_batch + 1 ELSE a.batch

\* main: the return (or the exception) that ends the run
EndOfRun(a, p, rows, sheet_ok, status, container) ==
    LET total == total_batches(rows, a.size)
        chosen == ChosenBatch(a, p)
    IN  IF a.status THEN "status"
        ELSE IF a.next /\ chosen > total THEN "all_complete"
        ELSE IF ~a.next /\ a.batch = 0
        THEN (IF ~a.dry_run THEN "usage" ELSE "preview")
        ELSE IF chosen < 1 \/ chosen > total THEN "out_of_range"
        ELSE IF a.dry_run THEN "dry_run"
        ELSE IF ~sheet_ok THEN "sheet_failed"
        ELSE IF ~a.launch THEN "pushed"
        ELSE IF status = "running" THEN "agent_running"
        ELSE IF container = "raises" THEN "crashed"
        ELSE IF container = "falsy" THEN "launch_failed"
        ELSE "launched"

\* an update that appends the batch whether it is recorded or not
UpdateProgress_always_append(p, b) ==
    [completed_batches |-> Append(p.completed_batches, b), last_batch |-> b]

\* main: "Update progress"
UpdateProgress(p, b) ==
    [completed_batches |->
        IF \E i \in DOMAIN p.completed_batches : p.completed_batches[i] = b
        THEN p.completed_batches
        ELSE Append(p.completed_batches, b),
     last_batch |-> b]

InitScraper ==
    /\ script = "batch-scraper"
    /\ pc = "main"
    /\ arg = <<>>
    /\ ret = <<>>
    /\ dry_run = FALSE
    /\ audit_only = FALSE
    /\ crm = <<>>
    /\ log = <<>>
    /\ contacts = <<>>
    /\ dupes = <<>>
    /\ gi = 1
    /\ di = 1
    /\ total_merged = 0
    /\ total_deleted = 0
    /\ cleanup = FALSE
    /\ fix_industry = FALSE
    /\ synced_profiles = <<>>
    /\ unsynced_profiles = <<>>
    /\ scraper_profiles = <<>>
    /\ cache_file = NoCacheFile
    /\ industry_cache = EmptyDict
    /\ ei = 1
    /\ enriched_count = 0
    /\ skipped_count = 0
    /\ no_match_count = 0
    /\ created_count = 0
    /\ scraper_created = 0
    /\ hs_name_set = {}
    /\ hs_url_set = {}
    /\ progress = NoProgress
    /\ url_rows \in 0..MaxUrlRows
    /\ args = NoArgs
    /\ batch_num = 0
    /\ said = ""

\* one run of main; the sheet writer, the agent status and the launch answer
\* only where the run gets as far as asking for them
BatchScraperMain ==
    /\ script = "batch-scraper"
    /\ \E a \in ArgSets :
       LET writes == EndOfRun(a, progress, url_rows, TRUE, "finished", "container")
                        \in {"pushed", "launched"}
       IN  \E sheet_ok \in IF writes THEN BOOLEAN ELSE {TRUE} :
           \E status \in IF writes /\ a.launch /\ sheet_ok
                         THEN {"running", "finished", "unknown"} ELSE {"finished"} :
           \E container \in IF writes /\ a.launch /\ sheet_ok /\ status /= "running"
                            THEN LaunchResults ELSE {"container"} :
              LET end == EndOfRun(a, progress, url_rows, sheet_ok, status, container)
              IN  /\ args' = a
                  /\ said' = end
                  /\ batch_num' = IF end \in {"status", "all_complete", "usage", "preview"}
                                  THEN 0
                                  ELSE ChosenBatch(a, progress)
                  /\ progress' = IF end \in {"pushed", "launched"}
                                 THEN UpdateProgress(progress, ChosenBatch(a, progress))
                                 ELSE progress
    /\ UNCHANGED <<url_rows, arg, ret, script, pc, dry_run, audit_only, crm, log, contacts,
                   dedupVars, enrichVars>>

SpecScraper == InitScraper /\ [][BatchScraperMain]_vars

(***************************************************************************)
(* Properties                                                              *)
(***************************************************************************)

\* the usable keys two contacts of a list have in common: a name key of more
\* than 2 characters, a URL key that is not empty
SharedName(cs, i, j) ==
    Len(NameKey(cs[i])) > 2 /\ NameKey(cs[i]) = NameKey(cs[j])

SharedUrl(cs, i, j) ==
    UrlKey(cs[i]) /= <<>> /\ UrlKey(cs[i]) = UrlKey(cs[j])

SharesKey(cs, i, j) == SharedName(cs, i, j) \/ SharedUrl(cs, i, j)

\* the positions linked to a position of S by a chain of shared keys
RECURSIVE Chain(_, _)
Chain(cs, S) ==
    LET T == S \cup {j \in DOMAIN cs : \E i \in S : i /= j /\ SharesKey(cs, i, j)}
    IN  IF T = S THEN S ELSE Chain(cs, T)

Linked(cs, i, j) == j \in Chain(cs, {i})

IdsOf(group) == {group[i].id : i \in DOMAIN group}

\* the groups of a find_duplicates result, each as its set of ids
GroupIdSets(items) == {IdsOf(items[n].group) : n \in DOMAIN items}

\* the keeper process_duplicates picks in each group of a result
KeeperIds(items) == {SortGroup(items[n].group)[1].id : n \in DOMAIN items}

\* C1: after find_duplicates, any two contacts linked by a chain of contacts
\* in which consecutive contacts share a usable name key or a usable URL key
\* are in one returned group.
C1_LinkedContactsShareGroup ==
    pc = "found" =>
        \A i, j \in DOMAIN contacts :
            (i /= j /\ Linked(contacts, i, j)) =>
                \E g \in GroupIdSets(dupes) :
                    contacts[i].id \in g /\ contacts[j].id \in g

\* C1 witness: a chain that mixes key types was grouped: i and m share only
\* a name, m and j share only a URL, i and j share nothing.
C1_MixedChainGrouped ==
    /\ pc = "found"
    /\ \E i, m, j \in DOMAIN contacts :
          /\ SharedName(contacts, i, m) /\ ~SharedUrl(contacts, i, m)
          /\ SharedUrl(contacts, m, j) /\ ~SharedName(contacts, m, j)
          /\ ~SharesKey(contacts, i, j)
          /\ i /= j
          /\ \E g \in GroupIdSets(dupes) :
                {contacts[i].id, contacts[m].id, contacts[j].id} \subseteq g

\* C2: two contacts are in one returned group only if a chain of shared
\* usable keys links them; every group holds at least two distinct ids, each
\* once; a contact that shares no usable key with another is in no group.
C2_GroupsOnlyLinkContacts ==
    pc = "found" =>
        /\ \A n \in DOMAIN dupes :
              /\ Cardinality(IdsOf(dupes[n].group)) >= 2
              /\ Cardinality(IdsOf(dupes[n].group)) = Len(dupes[n].group)
        /\ \A i, j \in DOMAIN contacts :
              (\E g \in GroupIdSets(dupes) :
                  contacts[i].id \in g /\ contacts[j].id \in g)
                  => Linked(contacts, i, j)
        /\ \A i \in DOMAIN contacts :
              (\A j \in DOMAIN contacts : j /= i => ~SharesKey(contacts, i, j))
                  => \A g \in GroupIdSets(dupes) : contacts[i].id \notin g

\* C2 witness: a run with a group, beside two contacts that have the same
\* name key of two characters and are in no group.
C2_ShortNamesLeftAlone ==
    /\ pc = "found"
    /\ dupes /= <<>>
    /\ \E i, j \in DOMAIN contacts :
          /\ i /= j
          /\ NameKey(contacts[i]) = NameKey(contacts[j])
          /\ Len(NameKey(contacts[i])) = 2
          /\ \A g \in GroupIdSets(dupes) :
                contacts[i].id \notin g /\ contacts[j].id \notin g

\* positions of the log that hold a request of the method for the contact
RequestsAt(method, id) ==
    {i \in DOMAIN log : log[i].method = method /\ log[i].id = id}

\* C3: in a run that is not dry, every DELETE of a member of a group comes
\* after the merge PATCH of the group's keeper: when the group has a merge to
\* send, a PATCH precedes the DELETE, and no PATCH of the keeper follows it.
C3_MergeBeforeDelete ==
    (script = "dedup" /\ ~dry_run) =>
        \A n \in DOMAIN dupes :
            LET group  == SortGroup(dupes[n].group)
                keeper == group[1].id
            IN  \A m \in 2..Len(group) :
                    \A d \in RequestsAt("DELETE", group[m].id) :
                        /\ \A q \in RequestsAt("PATCH", keeper) : q < d
                        /\ ComputeMerge(group) /= EmptyDict
                              => \E q \in RequestsAt("PATCH", keeper) : q < d

\* C3 witness: a keeper was patched and a member of its group deleted.
C3_PatchedThenDeleted ==
    /\ script = "dedup" /\ ~dry_run
    /\ \E n \in DOMAIN dupes :
          LET group == SortGroup(dupes[n].group)
          IN  /\ RequestsAt("PATCH", group[1].id) /= {}
              /\ \E m \in 2..Len(group) : RequestsAt("DELETE", group[m].id) /= {}

\* C4: the merge update computed for a keeper holds no tracked field that is
\* filled on the keeper (filled: not empty once stripped, the test the code
\* applies to every value).
C4_MergeLeavesFilledFieldsAlone ==
    (script = "dedup" /\ pc \in {"merge", "delete"}) =>
        LET group == CurrentGroup
        IN  \A f \in DOMAIN ComputeMerge(group) :
                /\ f \in FieldSet
                /\ ~Filled(Get(group[1].properties, f))

\* C4 witness: a merge was computed for a keeper that has a filled field for
\* which a duplicate has a value too.
C4_KeeperFieldContested ==
    /\ script = "dedup" /\ pc = "delete"
    /\ LET group == CurrentGroup
       IN  /\ ComputeMerge(group) /= EmptyDict
           /\ \E f \in FieldSet, m \in 2..Len(group) :
                 /\ Filled(Get(group[1].properties, f))
                 /\ Filled(Get(group[m].properties, f))

\* the contacts in the order given by a permutation of their positions
Reordered(cs, perm) == [i \in DOMAIN cs |-> cs[perm[i]]]

\* C9: listing the same contacts in any other order, find_duplicates yields
\* the same groups as sets of ids and process_duplicates picks the same
\* keeper in each group.
C9_OrderIndependent ==
    pc = "found" =>
        \A perm \in Orderings(DOMAIN contacts) :
            LET other == find_duplicates(Reordered(contacts, perm))
            IN  /\ GroupIdSets(other) = GroupIdSets(dupes)
                /\ KeeperIds(other) = KeeperIds(dupes)

\* C9 witness: a group whose two best members have the same score.
C9_TiedScores ==
    /\ pc = "found"
    /\ \E n \in DOMAIN dupes :
          LET group == SortGroup(dupes[n].group)
          IN  score(group[1]) = score(group[2])

\* C10: in a group with a member whose e-mail is filled, the keeper's e-mail
\* is filled.
C10_KeeperHasEmail ==
    pc = "found" =>
        \A n \in DOMAIN dupes :
            LET group == dupes[n].group
            IN  (\E m \in DOMAIN group : Filled(Get(group[m].properties, "email")))
                    => Filled(Get(SortGroup(group)[1].properties, "email"))

\* C10 witness: the keeper has an e-mail, and a member without e-mail has a
\* smaller id and more fields filled than the keeper.
C10_EmailBeatsFieldCount ==
    /\ pc = "found"
    /\ \E n \in DOMAIN dupes :
          LET group == SortGroup(dupes[n].group)
          IN  /\ Filled(Get(group[1].properties, "email"))
              /\ \E m \in 2..Len(group) :
                    /\ ~Filled(Get(group[m].properties, "email"))
                    /\ group[m].id < group[1].id
                    /\ score(group[m])[3] > score(group[1])[3]

\* the requests that change the CRM
WriteMethods == {"PATCH", "POST", "DELETE"}

\* positions of a log that hold a request of the method that the CRM accepted
Accepted(requests, method) ==
    {i \in DOMAIN requests : requests[i].method = method /\ Truthy(requests[i].outcome)}

\* C5: in a dry run of dedup.py or of enrich.py, whatever the other flags, no
\* step sends a PATCH, a POST or a DELETE to the CRM, and no step changes the
\* contacts the CRM holds.
C5_DryRunSendsNoWrite ==
    [][dry_run =>
          /\ crm' = crm
          /\ \A i \in DOMAIN log' : log'[i].method \notin WriteMethods]_vars

\* C5 witness: a dry run of enrich.py with --cleanup and --fix-industry came
\* to its end past every write site: a contact had an industry to remap, a
\* contact had updates to take, and a profile had no contact yet.
C5_DryRunPastWriteSites ==
    /\ script = "enrich" /\ dry_run /\ cleanup /\ fix_industry
    /\ pc = "done"
    /\ enriched_count > 0
    /\ \E i \in DOMAIN contacts :
          Strip(Get(contacts[i].properties, "industry")) \notin HUBSPOT_INDUSTRY_SET \cup {<<>>}
    /\ \E i \in DOMAIN unsynced_profiles :
          MasterKey(unsynced_profiles[i]) \notin DOMAIN hs_by_name(contacts)
    /\ hs_name_set /= {}

\* C6: in a dry run of enrich.py no step changes what the industry cache file
\* holds.
C6_DryRunKeepsCacheFile ==
    [][(script = "enrich" /\ dry_run) => cache_file'.data = cache_file.data]_vars

\* C7: a PATCH or a DELETE of process_duplicates that fails, by an HTTP error
\* response or by a timeout or connection failure, does not end the run: the
\* run never stops on a request that writes.
C7_WriteFailureDoesNotAbort ==
    (script = "dedup" /\ pc = "crashed") => log[Len(log)].method \notin WriteMethods

\* C8: in a run that is not dry, the totals count accepted writes only: no
\* more merges than PATCHes the CRM accepted and no more deletions than
\* DELETEs it accepted in dedup.py, and (without --fix-industry, whose PATCHes
\* are counted apart) no more enriched contacts than contacts with an accepted
\* PATCH in enrich.py.
C8_TotalsCountAcceptedWrites ==
    ~dry_run =>
        /\ script = "dedup" =>
              /\ total_merged <= Cardinality(Accepted(log, "PATCH"))
              /\ total_deleted <= Cardinality(Accepted(log, "DELETE"))
        /\ (script = "enrich" /\ ~fix_industry) =>
              enriched_count <= Cardinality({log[i].id : i \in Accepted(log, "PATCH")})

\* the members of a sorted group whose score equals the keeper's
TiedWithKeeper(group) == {m \in DOMAIN group : score(group[m]) = score(group[1])}

\* C11, as stated: among the members of a duplicate group whose score tuples
\* are equal, the keeper is the one with the numerically larger id.
C11_LargerIdKept ==
    pc = "found" =>
        \A n \in DOMAIN dupes :
            LET group == SortGroup(dupes[n].group)
            IN  \A m \in TiedWithKeeper(group) : group[1].id >= group[m].id

\* C11, amended: the keeper has the best score of its group, and among the
\* members whose score tuple equals the keeper's the keeper is the one with
\* the numerically smaller id.
C11_SmallerIdKept ==
    pc = "found" =>
        \A n \in DOMAIN dupes :
            LET group == SortGroup(dupes[n].group)
            IN  /\ \A m \in DOMAIN group : ~TupleLess(score(group[1]), score(group[m]))
                /\ \A m \in TiedWithKeeper(group) : group[1].id <= group[m].id

\* C11 witness: two members tie for the best score of a group that lists the
\* larger id first, and the keeper is the one with the smaller id.
C11_TieListedLargerFirst ==
    /\ pc = "found"
    /\ \E n \in DOMAIN dupes :
          LET listed == dupes[n].group
              group  == SortGroup(listed)
          IN  /\ Cardinality(TiedWithKeeper(group)) >= 2
              /\ listed[1].id > group[1].id
              /\ score(listed[1]) = score(group[1])

\* the first member after the keeper, in the order of the sorted group, whose
\* value for the field is filled
FirstWith(group, f) ==
    CHOOSE m \in 2..Len(group) :
        /\ Filled(Get(group[m].properties, f))
        /\ \A k \in 2..(m - 1) : ~Filled(Get(group[k].properties, f))

\* what C12 says the merge of a sorted group is
FirstValues(group) ==
    [f \in {f \in FieldSet :
                /\ ~Filled(Get(group[1].properties, f))
                /\ \E m \in 2..Len(group) : Filled(Get(group[m].properties, f))}
        |-> Strip(group[FirstWith(group, f)].properties[f])]

\* C12: for each tracked field that is empty on the keeper (blank once
\* stripped), the merge holds the value, stripped, of the first non-keeper in
\* iteration order that has a filled value for the field, and nothing else;
\* the PATCH sent for the keeper carries exactly that.
C12_FirstValueMerged ==
    script = "dedup" =>
        \A n \in DOMAIN dupes :
            LET group == SortGroup(dupes[n].group)
            IN  /\ ComputeMerge(group) = FirstValues(group)
                /\ \A i \in RequestsAt("PATCH", group[1].id) :
                       log[i].body = FirstValues(group)

\* C12 witness: a PATCH was sent for a keeper that lacks a field for which
\* two non-keepers have different filled values.
C12_TwoCandidateValues ==
    /\ script = "dedup"
    /\ \E n \in DOMAIN dupes :
          LET group == SortGroup(dupes[n].group)
          IN  /\ RequestsAt("PATCH", group[1].id) /= {}
              /\ \E f \in FieldSet, a, b \in 2..Len(group) :
                    /\ a < b
                    /\ ~Filled(Get(group[1].properties, f))
                    /\ Filled(Get(group[a].properties, f))
                    /\ Filled(Get(group[b].properties, f))
                    /\ Strip(Get(group[a].properties, f)) /= Strip(Get(group[b].properties, f))

\* no non-keeper of the sorted group has a filled value for a tracked field
\* that is empty on the keeper
NothingToFill(group) ==
    \A f \in FieldSet :
        \/ Filled(Get(group[1].properties, f))
        \/ \A m \in 2..Len(group) : ~Filled(Get(group[m].properties, f))

\* C13: when no non-keeper of a group has a filled value for a tracked field
\* that is empty on the keeper, the step of process_duplicates that handles
\* the keeper computes an empty merge, sends nothing and leaves total_merged
\* as it is, and the log never holds a PATCH for that keeper.
C13_EmptyMergeSendsNothing ==
    [][script = "dedup" =>
          /\ (pc = "merge" /\ NothingToFill(CurrentGroup)) =>
                 /\ ComputeMerge(CurrentGroup) = EmptyDict
                 /\ total_merged' = total_merged
                 /\ log' = log
          /\ \A n \in DOMAIN dupes' :
                 NothingToFill(SortGroup(dupes'[n].group)) =>
                    \A i \in DOMAIN log' :
                       ~(log'[i].method = "PATCH"
                           /\ log'[i].id = SortGroup(dupes'[n].group)[1].id)]_vars

\* C13 witness: in a run that is not dry, process_duplicates is past the
\* keeper of a group whose non-keepers have filled fields but none the keeper
\* lacks, and goes on to delete them.
C13_NothingToFillPassed ==
    /\ script = "dedup" /\ ~dry_run
    /\ pc = "delete" /\ di = 1
    /\ NothingToFill(CurrentGroup)
    /\ \E f \in FieldSet : Filled(Get(CurrentGroup[2].properties, f))

\* raw industry values: none, an enum value, values the inputs of a run
\* carry, and a value no input carries
RawIndustryValues ==
    {<<>>, <<"BANKING">>, <<"RETAIL">>, <<"Hospitals">>, <<"Banks">>, <<"Finance">>}

\* the calls of the classification service a log holds
ClassifyCalls(requests) == {i \in DOMAIN requests : requests[i].method = "CLASSIFY"}

\* C14: with the in-memory cache as any step of a run leaves it (empty until
\* resolve_industry_cache has run), map_industry returns the raw value when
\* it is an enum value, or else the cached mapping when the cache has the raw
\* value as a key, or else the empty string; and only the step that runs
\* resolve_industry_cache calls the classification service.
C14_MapIndustryLooksUpOnly ==
    [][script = "enrich" =>
          /\ \A raw \in RawIndustryValues :
                 /\ raw \in HUBSPOT_INDUSTRY_SET =>
                        map_industry(raw, industry_cache') = raw
                 /\ (raw \notin HUBSPOT_INDUSTRY_SET /\ raw \in DOMAIN industry_cache') =>
                        map_industry(raw, industry_cache') = industry_cache'[raw]
                 /\ (raw \notin HUBSPOT_INDUSTRY_SET /\ raw \notin DOMAIN industry_cache') =>
                        map_industry(raw, industry_cache') = <<>>
          /\ pc /= "resolve" => ClassifyCalls(log') = ClassifyCalls(log)
          /\ pc \in {"load", "resolve"} => industry_cache = EmptyDict]_vars

\* C14 witness: a run sent the CRM an industry that map_industry took from
\* the cache, for a raw value that is no enum value, while another raw value
\* of the run is neither an enum value nor cached.
C14_CachedMappingSent ==
    /\ script = "enrich"
    /\ \E i \in DOMAIN log, raw \in DOMAIN industry_cache :
          /\ log[i].method \in {"PATCH", "POST"}
          /\ raw \notin HUBSPOT_INDUSTRY_SET
          /\ "industry" \in DOMAIN log[i].body
          /\ log[i].body["industry"] = industry_cache[raw]
    /\ \E raw \in all_raw_industries :
          raw \notin HUBSPOT_INDUSTRY_SET /\ raw \notin DOMAIN industry_cache

\* the raw values a classification call of a log was sent
SentIn(requests, i) == {requests[i].body[k] : k \in DOMAIN requests[i].body}

\* the starts of a run after another that a log holds
RunStarts(requests) == {i \in DOMAIN requests : requests[i].method = "RUN"}

\* C15: a step sends the classification service only raw values that are no
\* enum values and no keys of the cache file as it is before the step; what
\* the in-memory cache maps after a step, the cache file maps too; so no
\* classification call of a later run holds a raw value that the cache file
\* mapped when that run started.
C15_CachedValuesNotSentAgain ==
    [][script = "enrich" =>
          /\ \A i \in ClassifyCalls(log') \ ClassifyCalls(log) :
                 \A raw \in SentIn(log', i) :
                    /\ raw \notin HUBSPOT_INDUSTRY_SET
                    /\ raw \notin DOMAIN _load_industry_cache(cache_file)
          /\ DOMAIN industry_cache' \subseteq DOMAIN _load_industry_cache(cache_file')
          /\ \A m \in RunStarts(log') :
                 \A j \in ClassifyCalls(log') :
                    j > m => SentIn(log', j) \cap DOMAIN log'[m].body = {}]_vars

\* C15 witness: the first run sent two raw values to the classifier and got
\* a valid mapping for one of them only; the second run sent the other one
\* again, and not the one that was mapped.
C15_OnlyUnmappedSentAgain ==
    /\ script = "enrich"
    /\ \E m \in RunStarts(log) :
       \E i, j \in ClassifyCalls(log) :
          /\ i < m /\ m < j
          /\ log[i].outcome = "ok"
          /\ \E raw \in SentIn(log, i) :
                raw \in DOMAIN log[m].body /\ raw \notin SentIn(log, j)
          /\ SentIn(log, i) \cap SentIn(log, j) /= {}

\* the pairs of a returned mapping whose value is an enum value
ValidPairs(mapping) ==
    [k \in {k \in DOMAIN mapping : mapping[k] \in HUBSPOT_INDUSTRY_SET} |-> mapping[k]]

\* C16: whatever JSON object the classifier returns for a batch, the call
\* yields exactly the returned pairs whose value is an enum value, and these
\* are what resolve_industry_cache merges into the cache: a pair with any
\* other value is dropped and the other pairs of the batch are kept.
C16_ExactlyValidPairsMerged ==
    (script = "enrich" /\ pc = "resolve") =>
        \A uncached \in UncachedLists(all_raw_industries, _load_industry_cache(cache_file)) :
        \A n \in DOMAIN Batches(uncached) :
        \A answer \in AiAnswers(Batches(uncached)[n], _load_industry_cache(cache_file)) :
            answer.kind = "json" =>
                /\ _ai_map_industries(Batches(uncached)[n], answer) = ValidPairs(answer.mapping)
                /\ ResolveBatches(_load_industry_cache(cache_file),
                                  <<Batches(uncached)[n]>>, <<answer>>, 1).cache
                      = ValidPairs(answer.mapping) @@ _load_industry_cache(cache_file)

\* C17: no step of any run removes or changes an entry of the cache file
\* that maps a raw value to an enum value, whatever the classifier returns.
C17_CacheEntriesStay ==
    [][script = "enrich" =>
          \A raw \in DOMAIN _load_industry_cache(cache_file) :
              _load_industry_cache(cache_file)[raw] \in HUBSPOT_INDUSTRY_SET =>
                  /\ raw \in DOMAIN _load_industry_cache(cache_file')
                  /\ _load_industry_cache(cache_file')[raw]
                        = _load_industry_cache(cache_file)[raw]]_vars

\* C18: no request of enrich.py to the CRM sets the industry of a contact to
\* the empty value, and the updates compute_updates returns for a contact of
\* step B hold no empty industry.
C18_NoEmptyIndustrySent ==
    script = "enrich" =>
        /\ \A i \in DOMAIN log :
               (log[i].method \in {"PATCH", "POST"} /\ "industry" \in DOMAIN log[i].body)
                   => log[i].body["industry"] /= <<>>
        /\ pc = "enrich" =>
               \A n \in DOMAIN connected_hs(contacts) :
                   LET c       == connected_hs(contacts)[n]
                       updates == compute_updates(c, MasterFor(c), ScraperFor(c, MasterFor(c)),
                                                  industry_cache)
                   IN  "industry" \in DOMAIN updates => updates["industry"] /= <<>>

\* the PATCH requests among some requests, in the order sent
Patches(requests) == SelectSeq(requests, LAMBDA r : r.method = "PATCH")

\* C19: in one pass of step B at most two PATCH requests are sent, both to
\* the contact of the pass; when the first does not succeed and its payload
\* holds email beside other fields, a second one is sent with email removed
\* and every other field as before, and otherwise no second one is sent; and
\* whatever way a PATCH of the pass fails, the run goes on to the contacts
\* that remain.
C19_RetryOnceWithoutEmail ==
    [][(script = "enrich" /\ pc = "enrich") =>
          LET sent == Patches(SubSeq(log', Len(log) + 1, Len(log')))
          IN  /\ Len(sent) <= 2
              /\ \A i \in DOMAIN sent : sent[i].id = connected_hs(contacts)[ei].id
              /\ (/\ Len(sent) >= 1
                  /\ ~Truthy(sent[1].outcome)
                  /\ "email" \in DOMAIN sent[1].body
                  /\ DOMAIN sent[1].body /= {"email"}) =>
                     /\ Len(sent) = 2
                     /\ sent[2].body = Restrict(sent[1].body, DOMAIN sent[1].body \ {"email"})
              /\ Len(sent) = 2 =>
                     ~Truthy(sent[1].outcome) /\ "email" \in DOMAIN sent[1].body
              /\ pc' /= "crashed"]_vars

\* C20: normalize_name is idempotent: called on a key it returned, it returns
\* that key again, for names with several suffix tokens in a row, separators
\* and parenthetical asides as well.
C20_NormalizeNameIdempotent ==
    pc = "called_again" => ret = arg

\* the words of a text: what stands between its commas and blanks
RECURSIVE WordsOf(_)
WordsOf(s) ==
    LET i == SkipSeps(s, 1)
    IN  IF i > Len(s) THEN <<>>
        ELSE LET rest == SubSeq(s, i, Len(s))
                 n == IF \E k \in DOMAIN rest : IsSep(rest[k])
                      THEN (CHOOSE k \in DOMAIN rest :
                                IsSep(rest[k]) /\ \A m \in 1..(k - 1) : ~IsSep(rest[m])) - 1
                      ELSE Len(rest)
             IN  <<SubSeq(rest, 1, n)>> \o WordsOf(SubSeq(rest, n + 1, Len(rest)))

\* the list of words after is the list before with words of the set tokens
\* left out; first tells that the head of before has no separator before it,
\* and then it is not one of them
RECURSIVE OnlyTokensDropped(_, _, _, _)
OnlyTokensDropped(before, after, tokens, first) ==
    IF before = <<>> THEN after = <<>>
    ELSE \/ /\ after /= <<>>
            /\ Head(after) = Head(before)
            /\ OnlyTokensDropped(Tail(before), Tail(after), tokens, FALSE)
         \/ /\ ~first
            /\ Head(before) \in tokens
            /\ OnlyTokensDropped(Tail(before), after, tokens, FALSE)

\* the name as the suffix pattern sees it, and the tokens of the script
BeforeSuffixes(name) == RemoveGlyphs(RemoveParens(Strip(Lower(name)), 1))

SuffixTokenSet ==
    IF script = "dedup" THEN {DedupSuffixTokens[i] : i \in DOMAIN DedupSuffixTokens}
    ELSE {EnrichSuffixTokens[i] : i \in DOMAIN EnrichSuffixTokens}

\* C21: normalize_name removes a suffix token only where it stands as a whole
\* word behind a comma or a blank: the words of the key are the words of the
\* name with nothing but whole suffix words left out, so a word that merely
\* contains the letters of a suffix is kept as it is.
C21_OnlyWholeSuffixWordsRemoved ==
    pc = "returned" =>
        OnlyTokensDropped(WordsOf(BeforeSuffixes(arg)), WordsOf(ret), SuffixTokenSet,
                          SkipSeps(BeforeSuffixes(arg), 1) = 1)

\* a suffix is removed from a name that also holds its letters inside a word
C21_SuffixLettersInsideWord ==
    /\ pc = "returned"
    /\ \E w \in {<<"a","l","m","a">>, <<"m","b","a","a","l">>} :
          /\ \E i \in DOMAIN WordsOf(ret) : WordsOf(ret)[i] = w
    /\ Len(WordsOf(ret)) < Len(WordsOf(BeforeSuffixes(arg)))

\* a URL without its scheme prefix, when it has one
WithoutScheme(u) ==
    LET http  == <<"h","t","t","p",":","/","/">>
        https == <<"h","t","t","p","s",":","/","/">>
    IN  IF Len(u) >= Len(https) /\ SubSeq(u, 1, Len(https)) = https
        THEN SubSeq(u, Len(https) + 1, Len(u))
        ELSE IF Len(u) >= Len(http) /\ SubSeq(u, 1, Len(http)) = http
        THEN SubSeq(u, Len(http) + 1, Len(u))
        ELSE u

\* URLs that differ from u in letter case, in the scheme prefix, in a query
\* string or in a trailing slash only
SameButFor(u) ==
    LET bare == WithoutScheme(u)
        q == IF \E i \in DOMAIN u : u[i] = "?" THEN <<>> ELSE <<"?","q">>
    IN  [case   |-> {Lower(u)},
         scheme |-> {bare, <<"h","t","t","p",":","/","/">> \o bare,
                     <<"h","t","t","p","s",":","/","/">> \o bare},
         query  |-> {u \o q},
         slash  |-> {u \o <<"/">>}]

\* C22: normalize_url gives one URL key to any two URLs that differ only in
\* letter case, in the scheme prefix (http://, https:// or none), in the
\* query string or in a trailing slash.
C22_VariantsShareUrlKey ==
    \A how \in {"case", "scheme", "query", "slash"} :
        pc = "returned" => \A v \in SameButFor(arg)[how] : normalize_url(v) = ret

\* C23: normalize_url is idempotent: called on a key it returned, it returns
\* that key again, for URLs with blanks or repeated slashes next to the query
\* separator as well.
C23_NormalizeUrlIdempotent ==
    pc = "called_again" => ret = arg

\* C24: a name key that is empty or has at most 2 characters never matches
\* two records: a CRM contact with such a key and no LinkedIn URL gets no
\* Master List profile and no scraper row from the enrichment lookups.
C24_ShortKeysNeverMatch ==
    \A i \in DOMAIN contacts :
        (/\ script = "enrich"
         /\ Len(HsKey(contacts[i])) <= 2
         /\ ~Filled(Get(contacts[i].properties, "hs_linkedin_url")))
        => /\ MasterFor(contacts[i]) = None
           /\ ScraperFor(contacts[i], None) = None

\* the external service a logged request goes to
ServiceOf(r) ==
    IF r.method \in {"GET", "PATCH", "POST", "DELETE"} THEN "crm"
    ELSE IF r.method = "CLASSIFY" THEN "classifier"
    ELSE "none"

\* C25: between any two consecutive requests a script sends to one external
\* service (fetches, updates, deletes, creates, retries, classification
\* batches) a rate-limit delay is taken.
C25_DelayBetweenRequests ==
    \A i, j \in DOMAIN log :
        (/\ i < j
         /\ ServiceOf(log[i]) /= "none"
         /\ ServiceOf(log[j]) = ServiceOf(log[i])
         /\ \A k \in (i + 1)..(j - 1) : ServiceOf(log[k]) /= ServiceOf(log[i]))
        => \E k \in (i + 1)..(j - 1) : log[k] = Sleep

\* C28: in a run of dedup.py that is not dry, a member of a group is deleted
\* only when the group needed no merge or the merge PATCH of its keeper
\* succeeded, so that no value held by a deleted member alone is lost.
C28_DeleteOnlyAfterMergeAccepted ==
    (script = "dedup" /\ ~dry_run) =>
        \A n \in DOMAIN dupes :
            LET group  == SortGroup(dupes[n].group)
                keeper == group[1].id
            IN  \A m \in 2..Len(group) :
                    \A d \in RequestsAt("DELETE", group[m].id) :
                        ComputeMerge(group) /= EmptyDict
                           => \E q \in RequestsAt("PATCH", keeper) :
                                 q < d /\ Truthy(log[q].outcome)

\* C30: normalize_name of dedup.py and normalize_name of enrich.py return the
\* same key for every name.
C30_BothScriptsSameKey ==
    pc = "returned" => normalize_name(arg) = enrich_normalize_name(arg)

\* the ids a complete run of dedup.py leaves of the contacts cs: every id but
\* those of the members behind the keeper of each group
Survivors(cs) ==
    LET items == find_duplicates(cs)
    IN  IdsOf(cs) \ UNION {IdsOf(Tail(SortGroup(items[n].group))) : n \in DOMAIN items}

\* C26: when a run of dedup.py that is not dry is stopped between two requests
\* and a complete run follows, every request succeeding, the CRM holds the
\* ids one complete run over the first contents would have left, and every
\* group of the first contents keeps a member.
C26_InterruptedRunSameSurvivors ==
    (/\ script = "dedup"
     /\ pc = "done"
     /\ \E r \in DOMAIN log : log[r].method = "RUN"
     /\ \A i \in DOMAIN log : log[i].outcome = "ok")
    => LET first == log[CHOOSE r \in DOMAIN log : log[r].method = "RUN"].body
       IN  /\ IdsOf(crm) = Survivors(first)
           /\ \A n \in DOMAIN find_duplicates(first) :
                 IdsOf(find_duplicates(first)[n].group) \cap IdsOf(crm) /= {}

\* the batches a progress record holds as completed
Completed(p) == {p.completed_batches[i] : i \in DOMAIN p.completed_batches}

\* C27: whatever runs of batch-scraper.py came before, a run with --next picks
\* a batch that is not recorded in completed_batches, and it says that all
\* batches are complete only when every batch 1..total_batches is recorded.
C27_NextPicksPendingBatch ==
    [][(script = "batch-scraper" /\ args'.next /\ ~args'.status) =>
          /\ batch_num' /= 0 => batch_num' \notin Completed(progress)
          /\ said' = "all_complete" =>
                \A b \in 1..total_batches(url_rows, args'.size) : b \in Completed(progress)
      ]_vars

\* C29: a run of batch-scraper.py changes the progress file only when it
\* wrote the batch to the holding sheet and, with --launch, the launch
\* returned a container; it then records the batch of the run, which is in
\* range, appends it to completed_batches unless it is there, and sets
\* last_batch to it.  A dry run, a batch out of range, a sheet write that
\* failed, an agent that is running and a launch that failed leave the file
\* as it was, and completed_batches never holds a batch twice.
C29_ProgressOnlyAfterSuccess ==
    [][script = "batch-scraper" =>
          /\ said' \in {"pushed", "launched"} \/ progress' = progress
          /\ args'.dry_run => progress' = progress
          /\ said' = "pushed" => ~args'.launch
          /\ said' = "launched" => args'.launch
          /\ said' \in {"pushed", "launched"} =>
                /\ batch_num' \in 1..total_batches(url_rows, args'.size)
                /\ progress'.last_batch = batch_num'
                /\ Completed(progress') = Completed(progress) \cup {batch_num'}
                /\ \E tail \in {<<>>, <<batch_num'>>} :
                      progress'.completed_batches = progress.completed_batches \o tail
          /\ \A i, j \in DOMAIN progress'.completed_batches :
                progress'.completed_batches[i] = progress'.completed_batches[j] => i = j
      ]_vars

\* a batch that was recorded before has been launched again
C29_CompletedBatchRunAgain ==
    /\ script = "batch-scraper"
    /\ said = "launched"
    /\ Len(progress.completed_batches) >= 2
    /\ progress.last_batch /= progress.completed_batches[Len(progress.completed_batches)]

====
